---- MODULE Spec2Model ----
(***************************************************************************)
(* pynes-emu: a 6502 emulator.  The model follows src/pynes_emu: Memory    *)
(* (memory.py), Bus (bus.py), ProcessorStatus / Addressing /               *)
(* INSTRUCTION_SET (models.py) and Cpu (cpu.py).                           *)
(*                                                                         *)
(* Python integers are unbounded, so every quantity is an Int and the      *)
(* masks are applied exactly where the source applies them.                *)
(***************************************************************************)
EXTENDS Integers, Sequences, FiniteSets, TLC

VARIABLES
    reg_a,      \* Cpu._reg_a
    reg_x,      \* Cpu._reg_x
    reg_y,      \* Cpu._reg_y
    reg_s,      \* Cpu._reg_s
    pc,         \* Cpu.pc
    reg_p,      \* Cpu.reg_p, a ProcessorStatus
    memory,     \* Cpu.memory: the Bus, with its two Memory regions
    outcome,    \* how the last operation ended: "ok" or the exception raised
    last,       \* the last operation: its kind, its inputs and what it returned
    pre,        \* the Cpu and the Bus as they were before the last operation
    raised,     \* whether some operation since construction raised an exception
    ops         \* number of operations performed since construction

vars ==
    <<reg_a, reg_x, reg_y, reg_s, pc, reg_p, memory, outcome, last, pre, raised, ops>>

-----------------------------------------------------------------------------
(* Python's integer operators on unbounded (possibly negative) integers.   *)

\* x >> k
Shr(x, k) == x \div (2 ^ k)

\* x << k
Shl(x, k) == x * (2 ^ k)

\* ~x
Inv(x) == (0 - x) - 1

RECURSIVE BitAnd(_, _)
\* x & y
BitAnd(x, y) ==
    IF x = 0 \/ y = 0 THEN 0
    ELSE IF x = -1 THEN y
    ELSE IF y = -1 THEN x
    ELSE ((x % 2) * (y % 2)) + 2 * BitAnd(x \div 2, y \div 2)

RECURSIVE BitOr(_, _)
\* x | y
BitOr(x, y) ==
    IF x = 0 THEN y
    ELSE IF y = 0 THEN x
    ELSE IF x = -1 \/ y = -1 THEN -1
    ELSE (IF (x % 2) + (y % 2) > 0 THEN 1 ELSE 0) + 2 * BitOr(x \div 2, y \div 2)

RECURSIVE BitXor(_, _)
\* x ^ y
BitXor(x, y) ==
    IF x = 0 THEN y
    ELSE IF y = 0 THEN x
    ELSE IF x = -1 THEN Inv(y)
    ELSE IF y = -1 THEN Inv(x)
    ELSE ((x + y) % 2) + 2 * BitXor(x \div 2, y \div 2)

\* int(b) of a Python bool; a bool used in arithmetic is 1 or 0
Bool(b) == IF b THEN 1 ELSE 0

\* Python's None, for an addressing mode that yields no data or no address
None == -1

-----------------------------------------------------------------------------
(* memory.py: class Memory(list).  A Memory is its base_address and a list *)
(* of `size` integers, all 0 after construction.  The list is held as its  *)
(* length and the map of its non-zero elements.                            *)

\* Memory.__init__
NewMemory(size, base_address) ==
    [base_address |-> base_address, size |-> size, cells |-> <<>>]

\* list.__getitem__ / list.__setitem__ index rule: i in -len..len-1, a negative
\* index counting from the end; -1 here stands for IndexError
ListIndex(size, i) ==
    IF i >= 0 /\ i < size THEN i
    ELSE IF i < 0 /\ i >= 0 - size THEN size + i
    ELSE -1

\* element k of the list
Cell(m, k) == IF k \in DOMAIN m.cells THEN m.cells[k] ELSE 0

\* the list with element k set to v
SetCell(m, k, v) ==
    [m EXCEPT !.cells =
        IF v = 0
        THEN [j \in (DOMAIN m.cells) \ {k} |-> m.cells[j]]
        ELSE [j \in (DOMAIN m.cells) \cup {k} |-> IF j = k THEN v ELSE m.cells[j]]]

\* Memory.__getitem__(key), key an int
MemoryGetByte(m, key) ==
    LET k == ListIndex(m.size, key - m.base_address) IN
    IF k = -1 THEN [err |-> "IndexError", val |-> 0]
    ELSE [err |-> "ok", val |-> Cell(m, k)]

\* Memory.__getitem__((address, size)), the 16-bit little-endian read
MemoryGetWord(m, address, size) ==
    IF size # 2 THEN [err |-> "ValueError", val |-> 0]
    ELSE
        LET adjusted_address == address - m.base_address
            lo == ListIndex(m.size, adjusted_address)
            hi == ListIndex(m.size, adjusted_address + 1)
        IN  IF lo = -1 \/ hi = -1 THEN [err |-> "IndexError", val |-> 0]
            ELSE [err |-> "ok",
                  val |-> BitAnd(Shl(Cell(m, hi), 8) + Cell(m, lo), 65535)]

\* Memory.__setitem__ (int key) storing the value without `& 0xFF`
MemorySetByteUnmasked(m, key, value) ==
    LET k == ListIndex(m.size, key - m.base_address) IN
    IF k = -1 THEN [err |-> "IndexError", mem |-> m]
    ELSE [err |-> "ok", mem |-> SetCell(m, k, value)]

\* Memory.__setitem__(key, value), key an int
MemorySetByte(m, key, value) ==
    LET k == ListIndex(m.size, key - m.base_address) IN
    IF k = -1 THEN [err |-> "IndexError", mem |-> m]
    ELSE [err |-> "ok", mem |-> SetCell(m, k, BitAnd(value, 255))]

\* Memory.__setitem__((address, size), value), the 16-bit little-endian write;
\* the low byte is stored before the high byte's index is checked
MemorySetWord(m, address, size, value) ==
    IF size # 2 THEN [err |-> "ValueError", mem |-> m]
    ELSE
        LET adjusted_address == address - m.base_address
            value_lo == BitAnd(value, 255)
            value_hi == BitAnd(Shr(value, 8), 255)
            lo == ListIndex(m.size, adjusted_address)
            hi == ListIndex(m.size, adjusted_address + 1)
        IN  IF lo = -1 THEN [err |-> "IndexError", mem |-> m]
            ELSE IF hi = -1
            THEN [err |-> "IndexError", mem |-> SetCell(m, lo, value_lo)]
            ELSE [err |-> "ok",
                  mem |-> SetCell(SetCell(m, lo, value_lo), hi, value_hi)]

\* list slice bounds: a negative bound counts from the end, and both are
\* clamped to 0 .. len
SliceBound(size, i) ==
    IF i < 0 THEN (IF i + size < 0 THEN 0 ELSE i + size)
    ELSE IF i > size THEN size ELSE i

\* Memory.__setitem__(slice(start, stop), value), value a list of ints, no
\* step: elements start .. stop-1 (relative to base_address) are replaced by
\* the masked values, whatever their number, so the list can grow or shrink
MemorySetSlice(m, start, stop, value) ==
    LET a == SliceBound(m.size, start - m.base_address)
        b0 == SliceBound(m.size, stop - m.base_address)
        b == IF b0 < a THEN a ELSE b0
        n == Len(value)
        d == n - (b - a)
        kept_low == {k \in DOMAIN m.cells : k < a}
        kept_high == {k + d : k \in {j \in DOMAIN m.cells : j >= b}}
        written == {a + j - 1 : j \in {i \in 1..n : BitAnd(value[i], 255) # 0}}
    IN  [err |-> "ok",
         mem |-> [base_address |-> m.base_address,
                  size |-> m.size + d,
                  cells |-> [k \in kept_low \cup kept_high \cup written |->
                                IF k < a THEN m.cells[k]
                                ELSE IF k < a + n THEN BitAnd(value[k - a + 1], 255)
                                ELSE m.cells[k - d]]]]

-----------------------------------------------------------------------------
(* bus.py: class Bus.  The Bus holds cpu_memory and cartridge_prg_rom.     *)

\* Bus.__init__
NewBus(cpu_memory, cartridge_prg_rom) ==
    [cpu_memory |-> cpu_memory, cartridge_prg_rom |-> cartridge_prg_rom]

\* _get_mapped_address_and_memory without the masks of the mirrored ranges
MappedWithoutMirrors(bus, address) ==
    IF address < 8192
    THEN [address |-> address, memory |-> "cpu_memory"]
    ELSE IF address >= 8192 /\ address < 16384
    THEN [address |-> BitAnd(address, 8199), memory |-> "None"]
    ELSE IF address >= 32768
    THEN [address |-> address, memory |-> "cartridge_prg_rom"]
    ELSE [address |-> address, memory |-> "None"]

\* Bus._get_mapped_address_and_memory: the mapped address and the name of the
\* region, "None" where the source returns None for the memory
GetMappedAddressAndMemory(bus, address) ==
    IF address < 8192
    THEN [address |-> BitAnd(address, 2047), memory |-> "cpu_memory"]
    ELSE IF address >= 8192 /\ address < 16384
    THEN [address |-> BitAnd(address, 8199), memory |-> "None"]
    ELSE IF address >= 32768 /\ bus.cartridge_prg_rom.size = 16 * 1024
    THEN [address |-> BitAnd(address, 49151), memory |-> "cartridge_prg_rom"]
    ELSE IF address >= 32768
    THEN [address |-> address, memory |-> "cartridge_prg_rom"]
    ELSE [address |-> address, memory |-> "None"]

\* the Memory object a region name stands for
Region(bus, name) ==
    IF name = "cpu_memory" THEN bus.cpu_memory ELSE bus.cartridge_prg_rom

\* the Bus with region `name` replaced by m
WithRegion(bus, name, m) ==
    IF name = "cpu_memory" THEN [bus EXCEPT !.cpu_memory = m]
    ELSE [bus EXCEPT !.cartridge_prg_rom = m]

\* Bus.__getitem__(address), address an int: subscripting None is a TypeError
BusGetByte(bus, address) ==
    LET h == GetMappedAddressAndMemory(bus, address) IN
    IF h.memory = "None" THEN [err |-> "TypeError", val |-> 0]
    ELSE MemoryGetByte(Region(bus, h.memory), h.address)

\* Bus.__getitem__((address, size))
BusGetWord(bus, address, size) ==
    LET h == GetMappedAddressAndMemory(bus, address) IN
    IF h.memory = "None" THEN [err |-> "TypeError", val |-> 0]
    ELSE MemoryGetWord(Region(bus, h.memory), h.address, size)

\* Bus.__setitem__(address, value), address an int
BusSetByte(bus, address, value) ==
    LET h == GetMappedAddressAndMemory(bus, address) IN
    IF h.memory = "None" THEN [err |-> "TypeError", bus |-> bus]
    ELSE LET w == MemorySetByte(Region(bus, h.memory), h.address, value)
         IN  [err |-> w.err, bus |-> WithRegion(bus, h.memory, w.mem)]

\* Bus.__setitem__((address, size), value)
BusSetWord(bus, address, size, value) ==
    LET h == GetMappedAddressAndMemory(bus, address) IN
    IF h.memory = "None" THEN [err |-> "TypeError", bus |-> bus]
    ELSE LET w == MemorySetWord(Region(bus, h.memory), h.address, size, value)
         IN  [err |-> w.err, bus |-> WithRegion(bus, h.memory, w.mem)]

\* Bus.__setitem__(slice(start, stop), value): both bounds are mapped, the
\* region is the one of the stop bound
BusSetSlice(bus, start, stop, value) ==
    LET hs == GetMappedAddressAndMemory(bus, start)
        ht == GetMappedAddressAndMemory(bus, stop)
    IN  IF ht.memory = "None" THEN [err |-> "TypeError", bus |-> bus]
        ELSE LET w == MemorySetSlice(Region(bus, ht.memory), hs.address,
                                     ht.address, value)
             IN  [err |-> w.err, bus |-> WithRegion(bus, ht.memory, w.mem)]

-----------------------------------------------------------------------------
(* utils.py                                                                *)

\* address_to_big_endian without the swap of the two bytes
AddressNotSwapped(data) == data

\* address_to_big_endian
address_to_big_endian(data) ==
    LET data_lo == BitAnd(data, 255)
        data_hi == BitAnd(Shr(data, 8), 255)
    IN  Shl(data_lo, 8) + data_hi

\* signed_8_bit_to_int
signed_8_bit_to_int(data) ==
    IF Shr(data, 7) # 0 THEN data - 256 ELSE data

-----------------------------------------------------------------------------
(* models.py: ProcessorStatus.  Its fields are plain ints: nothing in the  *)
(* dataclass keeps a flag within {0, 1}.  The field `_` is named U here.   *)

\* ProcessorStatus()
NewProcessorStatus ==
    [N |-> 0, V |-> 0, U |-> 0, B |-> 0, D |-> 0, I |-> 0, Z |-> 0, C |-> 0]

\* to_int without the unused flag `_` (bit 5)
ToIntWithoutUnused(p) ==
    BitOr(BitOr(BitOr(BitOr(BitOr(BitOr(
        Shl(p.N, 7), Shl(p.V, 6)), Shl(p.B, 4)),
        Shl(p.D, 3)), Shl(p.I, 2)), Shl(p.Z, 1)), p.C)

\* ProcessorStatus.to_int
to_int(p) ==
    BitOr(BitOr(BitOr(BitOr(BitOr(BitOr(BitOr(
        Shl(p.N, 7), Shl(p.V, 6)), Shl(p.U, 5)), Shl(p.B, 4)),
        Shl(p.D, 3)), Shl(p.I, 2)), Shl(p.Z, 1)), p.C)

\* ProcessorStatus.from_int
from_int(v) ==
    LET value == BitAnd(v, 255) IN
    [N |-> BitAnd(Shr(value, 7), 1),
     V |-> BitAnd(Shr(value, 6), 1),
     U |-> BitAnd(Shr(value, 5), 1),
     B |-> BitAnd(Shr(value, 4), 1),
     D |-> BitAnd(Shr(value, 3), 1),
     I |-> BitAnd(Shr(value, 2), 1),
     Z |-> BitAnd(Shr(value, 1), 1),
     C |-> BitAnd(value, 1)]

-----------------------------------------------------------------------------
(* models.py: INSTRUCTION_SET, opcode |-> (name, addressing mode, size).   *)

INSTRUCTION_SET ==
       (169 :> [inst_name |-> "LDA", addressing_mode |-> "IMMEDIATE", inst_size |-> 2])  \* 0xA9
    @@ (165 :> [inst_name |-> "LDA", addressing_mode |-> "ZERO_PAGE", inst_size |-> 2])  \* 0xA5
    @@ (181 :> [inst_name |-> "LDA", addressing_mode |-> "ZERO_PAGE_X", inst_size |-> 2])  \* 0xB5
    @@ (173 :> [inst_name |-> "LDA", addressing_mode |-> "ABSOLUTE", inst_size |-> 3])  \* 0xAD
    @@ (189 :> [inst_name |-> "LDA", addressing_mode |-> "ABSOLUTE_X", inst_size |-> 3])  \* 0xBD
    @@ (185 :> [inst_name |-> "LDA", addressing_mode |-> "ABSOLUTE_Y", inst_size |-> 3])  \* 0xB9
    @@ (161 :> [inst_name |-> "LDA", addressing_mode |-> "INDIRECT_X", inst_size |-> 2])  \* 0xA1
    @@ (177 :> [inst_name |-> "LDA", addressing_mode |-> "INDIRECT_Y", inst_size |-> 2])  \* 0xB1
    @@ (162 :> [inst_name |-> "LDX", addressing_mode |-> "IMMEDIATE", inst_size |-> 2])  \* 0xA2
    @@ (166 :> [inst_name |-> "LDX", addressing_mode |-> "ZERO_PAGE", inst_size |-> 2])  \* 0xA6
    @@ (182 :> [inst_name |-> "LDX", addressing_mode |-> "ZERO_PAGE_Y", inst_size |-> 2])  \* 0xB6
    @@ (174 :> [inst_name |-> "LDX", addressing_mode |-> "ABSOLUTE", inst_size |-> 3])  \* 0xAE
    @@ (190 :> [inst_name |-> "LDX", addressing_mode |-> "ABSOLUTE_Y", inst_size |-> 3])  \* 0xBE
    @@ (160 :> [inst_name |-> "LDY", addressing_mode |-> "IMMEDIATE", inst_size |-> 2])  \* 0xA0
    @@ (164 :> [inst_name |-> "LDY", addressing_mode |-> "ZERO_PAGE", inst_size |-> 2])  \* 0xA4
    @@ (180 :> [inst_name |-> "LDY", addressing_mode |-> "ZERO_PAGE_X", inst_size |-> 2])  \* 0xB4
    @@ (172 :> [inst_name |-> "LDY", addressing_mode |-> "ABSOLUTE", inst_size |-> 3])  \* 0xAC
    @@ (188 :> [inst_name |-> "LDY", addressing_mode |-> "ABSOLUTE_X", inst_size |-> 3])  \* 0xBC
    @@ (133 :> [inst_name |-> "STA", addressing_mode |-> "ZERO_PAGE", inst_size |-> 2])  \* 0x85
    @@ (149 :> [inst_name |-> "STA", addressing_mode |-> "ZERO_PAGE_X", inst_size |-> 2])  \* 0x95
    @@ (141 :> [inst_name |-> "STA", addressing_mode |-> "ABSOLUTE", inst_size |-> 3])  \* 0x8D
    @@ (157 :> [inst_name |-> "STA", addressing_mode |-> "ABSOLUTE_X", inst_size |-> 3])  \* 0x9D
    @@ (153 :> [inst_name |-> "STA", addressing_mode |-> "ABSOLUTE_Y", inst_size |-> 3])  \* 0x99
    @@ (129 :> [inst_name |-> "STA", addressing_mode |-> "INDIRECT_X", inst_size |-> 2])  \* 0x81
    @@ (145 :> [inst_name |-> "STA", addressing_mode |-> "INDIRECT_Y", inst_size |-> 2])  \* 0x91
    @@ (134 :> [inst_name |-> "STX", addressing_mode |-> "ZERO_PAGE", inst_size |-> 2])  \* 0x86
    @@ (150 :> [inst_name |-> "STX", addressing_mode |-> "ZERO_PAGE_Y", inst_size |-> 2])  \* 0x96
    @@ (142 :> [inst_name |-> "STX", addressing_mode |-> "ABSOLUTE", inst_size |-> 3])  \* 0x8E
    @@ (132 :> [inst_name |-> "STY", addressing_mode |-> "ZERO_PAGE", inst_size |-> 2])  \* 0x84
    @@ (148 :> [inst_name |-> "STY", addressing_mode |-> "ZERO_PAGE_X", inst_size |-> 2])  \* 0x94
    @@ (140 :> [inst_name |-> "STY", addressing_mode |-> "ABSOLUTE", inst_size |-> 3])  \* 0x8C
    @@ (170 :> [inst_name |-> "TAX", addressing_mode |-> "IMPLIED", inst_size |-> 1])  \* 0xAA
    @@ (138 :> [inst_name |-> "TXA", addressing_mode |-> "IMPLIED", inst_size |-> 1])  \* 0x8A
    @@ (168 :> [inst_name |-> "TAY", addressing_mode |-> "IMPLIED", inst_size |-> 1])  \* 0xA8
    @@ (152 :> [inst_name |-> "TYA", addressing_mode |-> "IMPLIED", inst_size |-> 1])  \* 0x98
    @@ (186 :> [inst_name |-> "TSX", addressing_mode |-> "IMPLIED", inst_size |-> 1])  \* 0xBA
    @@ (154 :> [inst_name |-> "TXS", addressing_mode |-> "IMPLIED", inst_size |-> 1])  \* 0x9A
    @@ (72 :> [inst_name |-> "PHA", addressing_mode |-> "IMPLIED", inst_size |-> 1])  \* 0x48
    @@ (104 :> [inst_name |-> "PLA", addressing_mode |-> "IMPLIED", inst_size |-> 1])  \* 0x68
    @@ (8 :> [inst_name |-> "PHP", addressing_mode |-> "IMPLIED", inst_size |-> 1])  \* 0x08
    @@ (40 :> [inst_name |-> "PLP", addressing_mode |-> "IMPLIED", inst_size |-> 1])  \* 0x28
    @@ (41 :> [inst_name |-> "AND", addressing_mode |-> "IMMEDIATE", inst_size |-> 2])  \* 0x29
    @@ (37 :> [inst_name |-> "AND", addressing_mode |-> "ZERO_PAGE", inst_size |-> 2])  \* 0x25
    @@ (53 :> [inst_name |-> "AND", addressing_mode |-> "ZERO_PAGE_X", inst_size |-> 2])  \* 0x35
    @@ (45 :> [inst_name |-> "AND", addressing_mode |-> "ABSOLUTE", inst_size |-> 3])  \* 0x2D
    @@ (61 :> [inst_name |-> "AND", addressing_mode |-> "ABSOLUTE_X", inst_size |-> 3])  \* 0x3D
    @@ (57 :> [inst_name |-> "AND", addressing_mode |-> "ABSOLUTE_Y", inst_size |-> 3])  \* 0x39
    @@ (33 :> [inst_name |-> "AND", addressing_mode |-> "INDIRECT_X", inst_size |-> 2])  \* 0x21
    @@ (49 :> [inst_name |-> "AND", addressing_mode |-> "INDIRECT_Y", inst_size |-> 2])  \* 0x31
    @@ (73 :> [inst_name |-> "EOR", addressing_mode |-> "IMMEDIATE", inst_size |-> 2])  \* 0x49
    @@ (69 :> [inst_name |-> "EOR", addressing_mode |-> "ZERO_PAGE", inst_size |-> 2])  \* 0x45
    @@ (85 :> [inst_name |-> "EOR", addressing_mode |-> "ZERO_PAGE_X", inst_size |-> 2])  \* 0x55
    @@ (77 :> [inst_name |-> "EOR", addressing_mode |-> "ABSOLUTE", inst_size |-> 3])  \* 0x4D
    @@ (93 :> [inst_name |-> "EOR", addressing_mode |-> "ABSOLUTE_X", inst_size |-> 3])  \* 0x5D
    @@ (89 :> [inst_name |-> "EOR", addressing_mode |-> "ABSOLUTE_Y", inst_size |-> 3])  \* 0x59
    @@ (65 :> [inst_name |-> "EOR", addressing_mode |-> "INDIRECT_X", inst_size |-> 2])  \* 0x41
    @@ (81 :> [inst_name |-> "EOR", addressing_mode |-> "INDIRECT_Y", inst_size |-> 2])  \* 0x51
    @@ (9 :> [inst_name |-> "ORA", addressing_mode |-> "IMMEDIATE", inst_size |-> 2])  \* 0x09
    @@ (5 :> [inst_name |-> "ORA", addressing_mode |-> "ZERO_PAGE", inst_size |-> 2])  \* 0x05
    @@ (21 :> [inst_name |-> "ORA", addressing_mode |-> "ZERO_PAGE_X", inst_size |-> 2])  \* 0x15
    @@ (13 :> [inst_name |-> "ORA", addressing_mode |-> "ABSOLUTE", inst_size |-> 3])  \* 0x0D
    @@ (29 :> [inst_name |-> "ORA", addressing_mode |-> "ABSOLUTE_X", inst_size |-> 3])  \* 0x1D
    @@ (25 :> [inst_name |-> "ORA", addressing_mode |-> "ABSOLUTE_Y", inst_size |-> 3])  \* 0x19
    @@ (1 :> [inst_name |-> "ORA", addressing_mode |-> "INDIRECT_X", inst_size |-> 2])  \* 0x01
    @@ (17 :> [inst_name |-> "ORA", addressing_mode |-> "INDIRECT_Y", inst_size |-> 2])  \* 0x11
    @@ (10 :> [inst_name |-> "ASL", addressing_mode |-> "ACCUMULATOR", inst_size |-> 1])  \* 0x0A
    @@ (6 :> [inst_name |-> "ASL", addressing_mode |-> "ZERO_PAGE", inst_size |-> 2])  \* 0x06
    @@ (22 :> [inst_name |-> "ASL", addressing_mode |-> "ZERO_PAGE_X", inst_size |-> 2])  \* 0x16
    @@ (14 :> [inst_name |-> "ASL", addressing_mode |-> "ABSOLUTE", inst_size |-> 3])  \* 0x0E
    @@ (30 :> [inst_name |-> "ASL", addressing_mode |-> "ABSOLUTE_X", inst_size |-> 3])  \* 0x1E
    @@ (74 :> [inst_name |-> "LSR", addressing_mode |-> "ACCUMULATOR", inst_size |-> 1])  \* 0x4A
    @@ (70 :> [inst_name |-> "LSR", addressing_mode |-> "ZERO_PAGE", inst_size |-> 2])  \* 0x46
    @@ (86 :> [inst_name |-> "LSR", addressing_mode |-> "ZERO_PAGE_X", inst_size |-> 2])  \* 0x56
    @@ (78 :> [inst_name |-> "LSR", addressing_mode |-> "ABSOLUTE", inst_size |-> 3])  \* 0x4E
    @@ (94 :> [inst_name |-> "LSR", addressing_mode |-> "ABSOLUTE_X", inst_size |-> 3])  \* 0x5E
    @@ (42 :> [inst_name |-> "ROL", addressing_mode |-> "ACCUMULATOR", inst_size |-> 1])  \* 0x2A
    @@ (38 :> [inst_name |-> "ROL", addressing_mode |-> "ZERO_PAGE", inst_size |-> 2])  \* 0x26
    @@ (54 :> [inst_name |-> "ROL", addressing_mode |-> "ZERO_PAGE_X", inst_size |-> 2])  \* 0x36
    @@ (46 :> [inst_name |-> "ROL", addressing_mode |-> "ABSOLUTE", inst_size |-> 3])  \* 0x2E
    @@ (62 :> [inst_name |-> "ROL", addressing_mode |-> "ABSOLUTE_X", inst_size |-> 3])  \* 0x3E
    @@ (106 :> [inst_name |-> "ROR", addressing_mode |-> "ACCUMULATOR", inst_size |-> 1])  \* 0x6A
    @@ (102 :> [inst_name |-> "ROR", addressing_mode |-> "ZERO_PAGE", inst_size |-> 2])  \* 0x66
    @@ (118 :> [inst_name |-> "ROR", addressing_mode |-> "ZERO_PAGE_X", inst_size |-> 2])  \* 0x76
    @@ (110 :> [inst_name |-> "ROR", addressing_mode |-> "ABSOLUTE", inst_size |-> 3])  \* 0x6E
    @@ (126 :> [inst_name |-> "ROR", addressing_mode |-> "ABSOLUTE_X", inst_size |-> 3])  \* 0x7E
    @@ (105 :> [inst_name |-> "ADC", addressing_mode |-> "IMMEDIATE", inst_size |-> 2])  \* 0x69
    @@ (101 :> [inst_name |-> "ADC", addressing_mode |-> "ZERO_PAGE", inst_size |-> 2])  \* 0x65
    @@ (117 :> [inst_name |-> "ADC", addressing_mode |-> "ZERO_PAGE_X", inst_size |-> 2])  \* 0x75
    @@ (109 :> [inst_name |-> "ADC", addressing_mode |-> "ABSOLUTE", inst_size |-> 3])  \* 0x6D
    @@ (125 :> [inst_name |-> "ADC", addressing_mode |-> "ABSOLUTE_X", inst_size |-> 3])  \* 0x7D
    @@ (121 :> [inst_name |-> "ADC", addressing_mode |-> "ABSOLUTE_Y", inst_size |-> 3])  \* 0x79
    @@ (97 :> [inst_name |-> "ADC", addressing_mode |-> "INDIRECT_X", inst_size |-> 2])  \* 0x61
    @@ (113 :> [inst_name |-> "ADC", addressing_mode |-> "INDIRECT_Y", inst_size |-> 2])  \* 0x71
    @@ (233 :> [inst_name |-> "SBC", addressing_mode |-> "IMMEDIATE", inst_size |-> 2])  \* 0xE9
    @@ (229 :> [inst_name |-> "SBC", addressing_mode |-> "ZERO_PAGE", inst_size |-> 2])  \* 0xE5
    @@ (245 :> [inst_name |-> "SBC", addressing_mode |-> "ZERO_PAGE_X", inst_size |-> 2])  \* 0xF5
    @@ (237 :> [inst_name |-> "SBC", addressing_mode |-> "ABSOLUTE", inst_size |-> 3])  \* 0xED
    @@ (253 :> [inst_name |-> "SBC", addressing_mode |-> "ABSOLUTE_X", inst_size |-> 3])  \* 0xFD
    @@ (249 :> [inst_name |-> "SBC", addressing_mode |-> "ABSOLUTE_Y", inst_size |-> 3])  \* 0xF9
    @@ (225 :> [inst_name |-> "SBC", addressing_mode |-> "INDIRECT_X", inst_size |-> 2])  \* 0xE1
    @@ (241 :> [inst_name |-> "SBC", addressing_mode |-> "INDIRECT_Y", inst_size |-> 2])  \* 0xF1
    @@ (232 :> [inst_name |-> "INX", addressing_mode |-> "IMPLIED", inst_size |-> 1])  \* 0xE8
    @@ (200 :> [inst_name |-> "INY", addressing_mode |-> "IMPLIED", inst_size |-> 1])  \* 0xC8
    @@ (202 :> [inst_name |-> "DEX", addressing_mode |-> "IMPLIED", inst_size |-> 1])  \* 0xCA
    @@ (136 :> [inst_name |-> "DEY", addressing_mode |-> "IMPLIED", inst_size |-> 1])  \* 0x88
    @@ (230 :> [inst_name |-> "INC", addressing_mode |-> "ZERO_PAGE", inst_size |-> 2])  \* 0xE6
    @@ (246 :> [inst_name |-> "INC", addressing_mode |-> "ZERO_PAGE_X", inst_size |-> 2])  \* 0xF6
    @@ (238 :> [inst_name |-> "INC", addressing_mode |-> "ABSOLUTE", inst_size |-> 3])  \* 0xEE
    @@ (254 :> [inst_name |-> "INC", addressing_mode |-> "ABSOLUTE_X", inst_size |-> 3])  \* 0xFE
    @@ (198 :> [inst_name |-> "DEC", addressing_mode |-> "ZERO_PAGE", inst_size |-> 2])  \* 0xC6
    @@ (214 :> [inst_name |-> "DEC", addressing_mode |-> "ZERO_PAGE_X", inst_size |-> 2])  \* 0xD6
    @@ (206 :> [inst_name |-> "DEC", addressing_mode |-> "ABSOLUTE", inst_size |-> 3])  \* 0xCE
    @@ (222 :> [inst_name |-> "DEC", addressing_mode |-> "ABSOLUTE_X", inst_size |-> 3])  \* 0xDE
    @@ (201 :> [inst_name |-> "CMP", addressing_mode |-> "IMMEDIATE", inst_size |-> 2])  \* 0xC9
    @@ (197 :> [inst_name |-> "CMP", addressing_mode |-> "ZERO_PAGE", inst_size |-> 2])  \* 0xC5
    @@ (213 :> [inst_name |-> "CMP", addressing_mode |-> "ZERO_PAGE_X", inst_size |-> 2])  \* 0xD5
    @@ (205 :> [inst_name |-> "CMP", addressing_mode |-> "ABSOLUTE", inst_size |-> 3])  \* 0xCD
    @@ (221 :> [inst_name |-> "CMP", addressing_mode |-> "ABSOLUTE_X", inst_size |-> 3])  \* 0xDD
    @@ (217 :> [inst_name |-> "CMP", addressing_mode |-> "ABSOLUTE_Y", inst_size |-> 3])  \* 0xD9
    @@ (193 :> [inst_name |-> "CMP", addressing_mode |-> "INDIRECT_X", inst_size |-> 2])  \* 0xC1
    @@ (209 :> [inst_name |-> "CMP", addressing_mode |-> "INDIRECT_Y", inst_size |-> 2])  \* 0xD1
    @@ (224 :> [inst_name |-> "CPX", addressing_mode |-> "IMMEDIATE", inst_size |-> 2])  \* 0xE0
    @@ (228 :> [inst_name |-> "CPX", addressing_mode |-> "ZERO_PAGE", inst_size |-> 2])  \* 0xE4
    @@ (236 :> [inst_name |-> "CPX", addressing_mode |-> "ABSOLUTE", inst_size |-> 3])  \* 0xEC
    @@ (192 :> [inst_name |-> "CPY", addressing_mode |-> "IMMEDIATE", inst_size |-> 2])  \* 0xC0
    @@ (196 :> [inst_name |-> "CPY", addressing_mode |-> "ZERO_PAGE", inst_size |-> 2])  \* 0xC4
    @@ (204 :> [inst_name |-> "CPY", addressing_mode |-> "ABSOLUTE", inst_size |-> 3])  \* 0xCC
    @@ (144 :> [inst_name |-> "BCC", addressing_mode |-> "RELATIVE", inst_size |-> 2])  \* 0x90
    @@ (176 :> [inst_name |-> "BCS", addressing_mode |-> "RELATIVE", inst_size |-> 2])  \* 0xB0
    @@ (240 :> [inst_name |-> "BEQ", addressing_mode |-> "RELATIVE", inst_size |-> 2])  \* 0xF0
    @@ (48 :> [inst_name |-> "BMI", addressing_mode |-> "RELATIVE", inst_size |-> 2])  \* 0x30
    @@ (208 :> [inst_name |-> "BNE", addressing_mode |-> "RELATIVE", inst_size |-> 2])  \* 0xD0
    @@ (16 :> [inst_name |-> "BPL", addressing_mode |-> "RELATIVE", inst_size |-> 2])  \* 0x10
    @@ (80 :> [inst_name |-> "BVC", addressing_mode |-> "RELATIVE", inst_size |-> 2])  \* 0x50
    @@ (112 :> [inst_name |-> "BVS", addressing_mode |-> "RELATIVE", inst_size |-> 2])  \* 0x70
    @@ (24 :> [inst_name |-> "CLC", addressing_mode |-> "IMPLIED", inst_size |-> 1])  \* 0x18
    @@ (56 :> [inst_name |-> "SEC", addressing_mode |-> "IMPLIED", inst_size |-> 1])  \* 0x38
    @@ (88 :> [inst_name |-> "CLI", addressing_mode |-> "IMPLIED", inst_size |-> 1])  \* 0x58
    @@ (120 :> [inst_name |-> "SEI", addressing_mode |-> "IMPLIED", inst_size |-> 1])  \* 0x78
    @@ (184 :> [inst_name |-> "CLV", addressing_mode |-> "IMPLIED", inst_size |-> 1])  \* 0xB8
    @@ (216 :> [inst_name |-> "CLD", addressing_mode |-> "IMPLIED", inst_size |-> 1])  \* 0xD8
    @@ (248 :> [inst_name |-> "SED", addressing_mode |-> "IMPLIED", inst_size |-> 1])  \* 0xF8
    @@ (0 :> [inst_name |-> "BRK", addressing_mode |-> "IMPLIED", inst_size |-> 1])  \* 0x00
    @@ (64 :> [inst_name |-> "RTI", addressing_mode |-> "IMPLIED", inst_size |-> 1])  \* 0x40
    @@ (96 :> [inst_name |-> "RTS", addressing_mode |-> "IMPLIED", inst_size |-> 1])  \* 0x60
    @@ (32 :> [inst_name |-> "JSR", addressing_mode |-> "ABSOLUTE", inst_size |-> 3])  \* 0x20
    @@ (76 :> [inst_name |-> "JMP", addressing_mode |-> "ABSOLUTE", inst_size |-> 3])  \* 0x4C
    @@ (108 :> [inst_name |-> "JMP", addressing_mode |-> "INDIRECT", inst_size |-> 3])  \* 0x6C
    @@ (36 :> [inst_name |-> "BIT", addressing_mode |-> "ZERO_PAGE", inst_size |-> 2])  \* 0x24
    @@ (44 :> [inst_name |-> "BIT", addressing_mode |-> "ABSOLUTE", inst_size |-> 3])  \* 0x2C
    @@ (234 :> [inst_name |-> "NOP", addressing_mode |-> "IMPLIED", inst_size |-> 1])  \* 0xEA

-----------------------------------------------------------------------------
(* models.py: class Addressing.  Each mode yields (data, address); a read  *)
(* that raises ends the mode with that exception.                          *)

\* what a mode returns
Resolved(data, address) == [err |-> "ok", data |-> data, address |-> address]

\* a mode ended by the exception of a bus read
Unresolved(err) == [err |-> err, data |-> None, address |-> None]

\* (memory[address], address)
AccessAt(bus, address) ==
    LET r == BusGetByte(bus, address) IN
    IF r.err # "ok" THEN Unresolved(r.err) ELSE Resolved(r.val, address)

\* Addressing._direct_value
direct_value(data) == Resolved(data, None)

\* Addressing._no_value
no_value == Resolved(None, None)

\* Addressing._direct_access_zp
direct_access_zp(data, bus) == AccessAt(bus, data)

\* Addressing._direct_access_abs
direct_access_abs(data, bus) == AccessAt(bus, address_to_big_endian(data))

\* Addressing._shifted_access_x_zp
shifted_access_x_zp(data, bus, x) == AccessAt(bus, BitAnd(data + x, 255))

\* Addressing._shifted_access_y_zp
shifted_access_y_zp(data, bus, y) == AccessAt(bus, BitAnd(data + y, 255))

\* Addressing._shifted_access_x_abs
shifted_access_x_abs(data, bus, x) == AccessAt(bus, address_to_big_endian(data) + x)

\* Addressing._shifted_access_y_abs
shifted_access_y_abs(data, bus, y) == AccessAt(bus, address_to_big_endian(data) + y)

\* Addressing._indirect_access: (memory[memory[data_be]], memory[data_be])
indirect_access(data, bus) ==
    LET data_be == address_to_big_endian(data)
        inner == BusGetByte(bus, data_be)
    IN  IF inner.err # "ok" THEN Unresolved(inner.err)
        ELSE AccessAt(bus, inner.val)

\* Addressing._indexed_indirect_access
indexed_indirect_access(data, bus, x) ==
    LET address_lo == BusGetByte(bus, data + x)
        address_hi == BusGetByte(bus, data + x + 1)
    IN  IF address_lo.err # "ok" THEN Unresolved(address_lo.err)
        ELSE IF address_hi.err # "ok" THEN Unresolved(address_hi.err)
        ELSE AccessAt(bus, Shl(address_hi.val, 8) + address_lo.val)

\* _indirect_indexed_access with the index joined to the high byte by `|`
\* instead of `+`
IndirectIndexedWithoutCarry(data, bus, y) ==
    LET lo == BusGetByte(bus, data)
        address_hi == BusGetByte(bus, data + 1)
    IN  IF lo.err # "ok" THEN Unresolved(lo.err)
        ELSE IF address_hi.err # "ok" THEN Unresolved(address_hi.err)
        ELSE AccessAt(bus, BitOr(Shl(address_hi.val, 8), lo.val + y))

\* Addressing._indirect_indexed_access
indirect_indexed_access(data, bus, y) ==
    LET lo == BusGetByte(bus, data)
        address_hi == BusGetByte(bus, data + 1)
    IN  IF lo.err # "ok" THEN Unresolved(lo.err)
        ELSE IF address_hi.err # "ok" THEN Unresolved(address_hi.err)
        ELSE AccessAt(bus, Shl(address_hi.val, 8) + (lo.val + y))

\* Addressing.get_addressing_data
get_addressing_data(mode, bus, data, x, y) ==
    CASE mode = "IMMEDIATE"   -> direct_value(data)
      [] mode = "RELATIVE"    -> direct_value(data)
      [] mode = "ACCUMULATOR" -> no_value
      [] mode = "IMPLIED"     -> no_value
      [] mode = "ZERO_PAGE"   -> direct_access_zp(data, bus)
      [] mode = "ZERO_PAGE_X" -> shifted_access_x_zp(data, bus, x)
      [] mode = "ZERO_PAGE_Y" -> shifted_access_y_zp(data, bus, y)
      [] mode = "ABSOLUTE"    -> direct_access_abs(data, bus)
      [] mode = "ABSOLUTE_X"  -> shifted_access_x_abs(data, bus, x)
      [] mode = "ABSOLUTE_Y"  -> shifted_access_y_abs(data, bus, y)
      [] mode = "INDIRECT"    -> indirect_access(data, bus)
      [] mode = "INDIRECT_X"  -> indexed_indirect_access(data, bus, x)
      [] mode = "INDIRECT_Y"  -> indirect_indexed_access(data, bus, y)

-----------------------------------------------------------------------------
(* cpu.py: class Cpu.  A Cpu value c is a record of its fields (reg_a,     *)
(* reg_x, reg_y, reg_s, pc, reg_p, memory) and err, the exception that     *)
(* ended the call in progress ("ok": none).  The register setters mask to  *)
(* 8 bits; pc and the fields of reg_p are assigned unmasked.               *)

\* Where in Memory to find the start of the program
PC_START_INDIRECT_LOCATION == 65532

\* an exception leaves the fields as they are at the raise
Raise(c, e) == [c EXCEPT !.err = e]

\* Cpu.reg_a setter
set_reg_a(c, value) == [c EXCEPT !.reg_a = BitAnd(value, 255)]

\* Cpu.reg_x setter
set_reg_x(c, value) == [c EXCEPT !.reg_x = BitAnd(value, 255)]

\* Cpu.reg_y setter
set_reg_y(c, value) == [c EXCEPT !.reg_y = BitAnd(value, 255)]

\* Cpu.reg_s setter
set_reg_s(c, value) == [c EXCEPT !.reg_s = BitAnd(value, 255)]

\* self.memory[address] = value inside a handler
Store(c, address, value) ==
    LET w == BusSetByte(c.memory, address, value) IN
    IF w.err # "ok" THEN Raise(c, w.err) ELSE [c EXCEPT !.memory = w.bus]

\* reset without `self.reg_p = ProcessorStatus()`
ResetKeepingStatus(c) ==
    LET c1 == set_reg_s(set_reg_y(set_reg_x(set_reg_a(c, 0), 0), 0), 255)
        r  == BusGetWord(c1.memory, PC_START_INDIRECT_LOCATION, 2)
    IN  IF r.err # "ok" THEN Raise(c1, r.err) ELSE [c1 EXCEPT !.pc = r.val]

\* Cpu.reset
reset(c) ==
    LET c1 == [set_reg_s(set_reg_y(set_reg_x(set_reg_a(c, 0), 0), 0), 255)
                  EXCEPT !.reg_p = NewProcessorStatus]
        r  == BusGetWord(c1.memory, PC_START_INDIRECT_LOCATION, 2)
    IN  IF r.err # "ok" THEN Raise(c1, r.err) ELSE [c1 EXCEPT !.pc = r.val]

\* Cpu._push_stack
push_stack(c, value) ==
    LET c1 == Store(c, 256 + c.reg_s, value) IN
    IF c1.err # "ok" THEN c1 ELSE set_reg_s(c1, c1.reg_s - 1)

\* _pop_stack reading the stack before it moves the stack pointer
PopBeforeIncrement(c) ==
    LET r  == BusGetByte(c.memory, 256 + c.reg_s)
        c1 == set_reg_s(c, c.reg_s + 1)
    IN  IF r.err # "ok" THEN [c |-> Raise(c, r.err), val |-> 0]
        ELSE [c |-> c1, val |-> r.val]

\* Cpu._pop_stack: the Cpu afterwards and the value returned
pop_stack(c) ==
    LET c1 == set_reg_s(c, c.reg_s + 1)
        r  == BusGetByte(c1.memory, 256 + c1.reg_s)
    IN  IF r.err # "ok" THEN [c |-> Raise(c1, r.err), val |-> 0]
        ELSE [c |-> c1, val |-> r.val]

\* Cpu._set_zero_and_negative
set_zero_and_negative(c, value) ==
    [c EXCEPT !.reg_p.Z = Bool(value = 0), !.reg_p.N = Shr(value, 7)]

-----------------------------------------------------------------------------
(* cpu.py: the opcode handlers, _execute_<NAME>(data, address).            *)

\* Cpu._execute_ADC
execute_ADC(c, data) ==
    LET a7 == Shr(c.reg_a, 7)
        d7 == Shr(data, 7)
        result == c.reg_a + data
        r7 == Shr(result, 7)
        c1 == [c EXCEPT !.reg_p.V = Bool(a7 = d7 /\ a7 # r7),
                        !.reg_p.C = Shr(result, 8)]
    IN  set_zero_and_negative(set_reg_a(c1, result), result)

\* Cpu._execute_SBC: it calls _execute_ADC(data) without the second
\* positional argument, which is a TypeError
execute_SBC(c, data) == Raise(c, "TypeError")

\* Cpu._execute_AND
execute_AND(c, data) ==
    LET c1 == set_reg_a(c, BitAnd(c.reg_a, data)) IN
    set_zero_and_negative(c1, c1.reg_a)

\* Cpu._execute_EOR
execute_EOR(c, data) ==
    LET c1 == set_reg_a(c, BitXor(c.reg_a, data)) IN
    set_zero_and_negative(c1, c1.reg_a)

\* Cpu._execute_ORA
execute_ORA(c, data) ==
    LET c1 == set_reg_a(c, BitOr(c.reg_a, data)) IN
    set_zero_and_negative(c1, c1.reg_a)

\* Cpu._execute_ASL
execute_ASL(c, data, address) ==
    IF address # None
    THEN LET result == Shl(data, 1)
             c1 == Store(c, address, result)
         IN  IF c1.err # "ok" THEN c1
             ELSE set_zero_and_negative(
                      [c1 EXCEPT !.reg_p.C = Shr(data, 7)], result)
    ELSE LET result == Shl(c.reg_a, 1)
             c1 == set_reg_a(c, result)
         IN  set_zero_and_negative(
                 [c1 EXCEPT !.reg_p.C = Shr(result, 8)], result)

\* Cpu._execute_LSR
execute_LSR(c, data, address) ==
    IF address # None
    THEN LET result == Shr(data, 1)
             c1 == Store(c, address, result)
         IN  IF c1.err # "ok" THEN c1
             ELSE set_zero_and_negative(
                      [c1 EXCEPT !.reg_p.C = BitAnd(data, 1)], result)
    ELSE LET result == Shr(c.reg_a, 1)
             c1 == [c EXCEPT !.reg_p.C = BitAnd(c.reg_a, 1)]
         IN  set_zero_and_negative(set_reg_a(c1, result), result)

\* Cpu._execute_ROL
execute_ROL(c, data, address) ==
    IF address # None
    THEN LET result == Shl(data, 1) + c.reg_p.C
             c1 == Store(c, address, result)
         IN  IF c1.err # "ok" THEN c1
             ELSE set_zero_and_negative(
                      [c1 EXCEPT !.reg_p.C = Shr(data, 7)], result)
    ELSE LET result == Shl(c.reg_a, 1) + c.reg_p.C
             c1 == set_reg_a(c, result)
         IN  set_zero_and_negative(
                 [c1 EXCEPT !.reg_p.C = Shr(result, 8)], result)

\* _execute_ROR taking the carry from the rotated value, not from the input
RotateRightCarryFromResult(c, data, address) ==
    IF address # None
    THEN LET result == Shr(data, 1) + Shl(c.reg_p.C, 7)
             c1 == Store(c, address, result)
         IN  IF c1.err # "ok" THEN c1
             ELSE set_zero_and_negative(
                      [c1 EXCEPT !.reg_p.C = BitAnd(result, 1)], result)
    ELSE LET result == Shr(c.reg_a, 1) + Shl(c.reg_p.C, 7)
             c1 == [c EXCEPT !.reg_p.C = BitAnd(result, 1)]
         IN  set_zero_and_negative(set_reg_a(c1, result), result)

\* Cpu._execute_ROR
execute_ROR(c, data, address) ==
    IF address # None
    THEN LET result == Shr(data, 1) + Shl(c.reg_p.C, 7)
             c1 == Store(c, address, result)
         IN  IF c1.err # "ok" THEN c1
             ELSE set_zero_and_negative(
                      [c1 EXCEPT !.reg_p.C = BitAnd(data, 1)], result)
    ELSE LET result == Shr(c.reg_a, 1) + Shl(c.reg_p.C, 7)
             c1 == [c EXCEPT !.reg_p.C = BitAnd(c.reg_a, 1)]
         IN  set_zero_and_negative(set_reg_a(c1, result), result)

\* self.pc += data, what every taken branch does
BranchTo(c, data) == [c EXCEPT !.pc = c.pc + data]

\* Cpu._execute_BCC
execute_BCC(c, data) == IF c.reg_p.C = 0 THEN BranchTo(c, data) ELSE c

\* Cpu._execute_BCS
execute_BCS(c, data) == IF c.reg_p.C # 0 THEN BranchTo(c, data) ELSE c

\* Cpu._execute_BNE
execute_BNE(c, data) == IF c.reg_p.Z = 0 THEN BranchTo(c, data) ELSE c

\* Cpu._execute_BEQ
execute_BEQ(c, data) == IF c.reg_p.Z # 0 THEN BranchTo(c, data) ELSE c

\* Cpu._execute_BIT
execute_BIT(c, data) ==
    LET result == BitAnd(c.reg_a, data) IN
    [c EXCEPT !.reg_p.V = Shr(data, 6),
              !.reg_p.N = Shr(result, 7),
              !.reg_p.Z = Bool(result = 0)]

\* Cpu._execute_BMI
execute_BMI(c, data) == IF c.reg_p.N # 0 THEN BranchTo(c, data) ELSE c

\* Cpu._execute_BPL
execute_BPL(c, data) == IF c.reg_p.N = 0 THEN BranchTo(c, data) ELSE c

\* Cpu._execute_BVC
execute_BVC(c, data) == IF c.reg_p.V = 0 THEN BranchTo(c, data) ELSE c

\* Cpu._execute_BVS
execute_BVS(c, data) == IF c.reg_p.V # 0 THEN BranchTo(c, data) ELSE c

\* Cpu._execute_CLC
execute_CLC(c) == [c EXCEPT !.reg_p.C = 0]

\* Cpu._execute_SEC
execute_SEC(c) == [c EXCEPT !.reg_p.C = 1]

\* Cpu._execute_CLD
execute_CLD(c) == [c EXCEPT !.reg_p.D = 0]

\* Cpu._execute_SED
execute_SED(c) == [c EXCEPT !.reg_p.D = 1]

\* Cpu._execute_CLI
execute_CLI(c) == [c EXCEPT !.reg_p.I = 0]

\* Cpu._execute_SEI
execute_SEI(c) == [c EXCEPT !.reg_p.I = 1]

\* Cpu._execute_CLV
execute_CLV(c) == [c EXCEPT !.reg_p.V = 0]

\* the body shared by _execute_CMP, _execute_CPX and _execute_CPY
Compare(c, reg, data) ==
    LET result == reg - data IN
    set_zero_and_negative([c EXCEPT !.reg_p.C = Bool(result >= 0)], result)

\* Cpu._execute_CMP
execute_CMP(c, data) == Compare(c, c.reg_a, data)

\* Cpu._execute_CPX
execute_CPX(c, data) == Compare(c, c.reg_x, data)

\* Cpu._execute_CPY
execute_CPY(c, data) == Compare(c, c.reg_y, data)

\* Cpu._execute_DEC
execute_DEC(c, data, address) ==
    LET result == data - 1
        c1 == Store(c, address, result)
    IN  IF c1.err # "ok" THEN c1 ELSE set_zero_and_negative(c1, result)

\* Cpu._execute_DEX
execute_DEX(c) ==
    LET c1 == set_reg_x(c, c.reg_x - 1) IN set_zero_and_negative(c1, c1.reg_x)

\* Cpu._execute_DEY
execute_DEY(c) ==
    LET c1 == set_reg_y(c, c.reg_y - 1) IN set_zero_and_negative(c1, c1.reg_y)

\* Cpu._execute_INC
execute_INC(c, data, address) ==
    LET result == data + 1
        c1 == Store(c, address, result)
    IN  IF c1.err # "ok" THEN c1 ELSE set_zero_and_negative(c1, result)

\* Cpu._execute_INX
execute_INX(c) == set_reg_x(c, c.reg_x + 1)

\* Cpu._execute_INY
execute_INY(c) == set_reg_y(c, c.reg_y + 1)

\* Cpu._execute_JMP
execute_JMP(c, data) == [c EXCEPT !.pc = data]

\* Cpu._execute_JSR
execute_JSR(c, data) ==
    LET result == c.pc - 1
        hi_result == Shr(result, 8)
        lo_result == BitAnd(result, 255)
        c1 == push_stack(c, hi_result)
        c2 == push_stack(c1, lo_result)
    IN  IF c1.err # "ok" THEN c1
        ELSE IF c2.err # "ok" THEN c2
        ELSE [c2 EXCEPT !.pc = data]

\* _execute_RTS without the `+ 1`
ReturnWithoutIncrement(c) ==
    LET p1 == pop_stack(c)
        p2 == pop_stack(p1.c)
    IN  IF p1.c.err # "ok" THEN p1.c
        ELSE IF p2.c.err # "ok" THEN p2.c
        ELSE [p2.c EXCEPT !.pc = p1.val + Shl(p2.val, 8)]

\* Cpu._execute_RTS (defined twice in the class, with the same body)
execute_RTS(c) ==
    LET p1 == pop_stack(c)
        p2 == pop_stack(p1.c)
    IN  IF p1.c.err # "ok" THEN p1.c
        ELSE IF p2.c.err # "ok" THEN p2.c
        ELSE [p2.c EXCEPT !.pc = p1.val + Shl(p2.val, 8) + 1]

\* Cpu._execute_PHA
execute_PHA(c) == push_stack(c, c.reg_a)

\* Cpu._execute_PHP
execute_PHP(c) == push_stack(c, to_int(c.reg_p))

\* Cpu._execute_PLA
execute_PLA(c) ==
    LET p1 == pop_stack(c) IN
    IF p1.c.err # "ok" THEN p1.c
    ELSE LET c1 == set_reg_a(p1.c, p1.val) IN set_zero_and_negative(c1, c1.reg_a)

\* Cpu._execute_PLP
execute_PLP(c) ==
    LET p1 == pop_stack(c) IN
    IF p1.c.err # "ok" THEN p1.c
    ELSE [p1.c EXCEPT !.reg_p = from_int(p1.val)]

\* Cpu._execute_LDA
execute_LDA(c, data) ==
    LET c1 == set_reg_a(c, data) IN set_zero_and_negative(c1, c1.reg_a)

\* Cpu._execute_LDX
execute_LDX(c, data) ==
    LET c1 == set_reg_x(c, data) IN set_zero_and_negative(c1, c1.reg_x)

\* Cpu._execute_LDY
execute_LDY(c, data) ==
    LET c1 == set_reg_y(c, data) IN set_zero_and_negative(c1, c1.reg_y)

\* Cpu._execute_NOP
execute_NOP(c) == c

\* Cpu._execute_RTI
execute_RTI(c) ==
    LET p1 == pop_stack(c)
        c1 == [p1.c EXCEPT !.reg_p = from_int(p1.val)]
        p2 == pop_stack(c1)
        p3 == pop_stack(p2.c)
    IN  IF p1.c.err # "ok" THEN p1.c
        ELSE IF p2.c.err # "ok" THEN p2.c
        ELSE IF p3.c.err # "ok" THEN p3.c
        ELSE [p3.c EXCEPT !.pc = p2.val + Shl(p3.val, 8)]

\* Cpu._execute_STA
execute_STA(c, address) == Store(c, address, c.reg_a)

\* Cpu._execute_STX
execute_STX(c, address) == Store(c, address, c.reg_x)

\* Cpu._execute_STY
execute_STY(c, address) == Store(c, address, c.reg_y)

\* Cpu._execute_TAY
execute_TAY(c) ==
    LET c1 == set_reg_y(c, c.reg_a) IN set_zero_and_negative(c1, c1.reg_y)

\* Cpu._execute_TAX
execute_TAX(c) ==
    LET c1 == set_reg_x(c, c.reg_a) IN set_zero_and_negative(c1, c1.reg_x)

\* Cpu._execute_TSX
execute_TSX(c) ==
    LET c1 == set_reg_x(c, c.reg_s) IN set_zero_and_negative(c1, c1.reg_x)

\* Cpu._execute_TXS
execute_TXS(c) == set_reg_s(c, c.reg_x)

\* Cpu._execute_TXA
execute_TXA(c) ==
    LET c1 == set_reg_a(c, c.reg_x) IN set_zero_and_negative(c1, c1.reg_a)

\* Cpu._execute_TYA
execute_TYA(c) ==
    LET c1 == set_reg_a(c, c.reg_y) IN set_zero_and_negative(c1, c1.reg_a)

\* Cpu._execute_BRK
execute_BRK(c) ==
    LET result == c.pc + 1
        hi_result == Shr(result, 8)
        lo_result == BitAnd(result, 255)
        c1 == push_stack(c, hi_result)
        c2 == push_stack(c1, lo_result)
        c3 == push_stack(c2, to_int(c2.reg_p))
    IN  IF c1.err # "ok" THEN c1
        ELSE IF c2.err # "ok" THEN c2
        ELSE IF c3.err # "ok" THEN c3
        ELSE [c3 EXCEPT !.reg_p.B = 1]

-----------------------------------------------------------------------------
(* cpu.py: fetch, dispatch and the step.                                   *)

RECURSIVE FetchOperands(_, _, _, _)
\* the loop of Cpu._fetch_next, `left` operand bytes still to read: each
\* turn advances pc, shifts inst_data and adds the byte at pc.  `reads` are
\* the addresses read so far.
FetchOperands(c, left, inst_data, reads) ==
    IF left = 0 THEN [c |-> c, inst_data |-> inst_data, reads |-> reads]
    ELSE
        LET c1 == [c EXCEPT !.pc = c.pc + 1]
            r  == BusGetByte(c1.memory, c1.pc)
        IN  IF r.err # "ok"
            THEN [c |-> Raise(c1, r.err), inst_data |-> Shl(inst_data, 8),
                  reads |-> Append(reads, c1.pc)]
            ELSE FetchOperands(c1, left - 1, Shl(inst_data, 8) + r.val,
                               Append(reads, c1.pc))

\* what _fetch_next leaves when it raises before an instruction is found
NotFetched(c, op_hex) ==
    [c |-> c, op_hex |-> op_hex, inst_name |-> "", addressing_mode |-> "",
     inst_size |-> 0, inst_data |-> 0, reads |-> <<c.pc>>]

\* UnknownOpcode with the lookup made after pc was advanced
UnknownOpcodeAfterAdvance(c, op_hex) ==
    NotFetched(Raise([c EXCEPT !.pc = c.pc + 1], "KeyError"), op_hex)

\* INSTRUCTION_SET[op_hex] for an opcode that is no key of the table: the
\* KeyError is raised before pc is touched
UnknownOpcode(c, op_hex) == NotFetched(Raise(c, "KeyError"), op_hex)

\* Fetched without the last `self.pc += 1`
FetchedWithoutLastIncrement(f, op_hex, inst) ==
    [c |-> f.c,
     op_hex |-> op_hex,
     inst_name |-> inst.inst_name,
     addressing_mode |-> inst.addressing_mode,
     inst_size |-> inst.inst_size,
     inst_data |-> f.inst_data,
     reads |-> f.reads]

\* the end of Cpu._fetch_next, f being what the operand loop left: the last
\* `self.pc += 1` and the values returned
Fetched(f, op_hex, inst) ==
    [c |-> IF f.c.err # "ok" THEN f.c ELSE [f.c EXCEPT !.pc = f.c.pc + 1],
     op_hex |-> op_hex,
     inst_name |-> inst.inst_name,
     addressing_mode |-> inst.addressing_mode,
     inst_size |-> inst.inst_size,
     inst_data |-> f.inst_data,
     reads |-> f.reads]

\* Cpu._fetch_next after the opcode byte was read (r)
Decoded(c, r) ==
    IF r.err # "ok" THEN NotFetched(Raise(c, r.err), None)
    ELSE IF r.val \notin DOMAIN INSTRUCTION_SET THEN UnknownOpcode(c, r.val)
    ELSE Fetched(FetchOperands(c, INSTRUCTION_SET[r.val].inst_size - 1, 0, <<c.pc>>),
                 r.val, INSTRUCTION_SET[r.val])

\* Cpu._fetch_next: the Cpu afterwards, the instruction found and the
\* addresses read
fetch_next(c) == Decoded(c, BusGetByte(c.memory, c.pc))

\* getattr(self, f"_execute_{inst_name}")(data, address)
Dispatch(c, inst_name, data, address) ==
    CASE inst_name = "ADC" -> execute_ADC(c, data)
      [] inst_name = "SBC" -> execute_SBC(c, data)
      [] inst_name = "AND" -> execute_AND(c, data)
      [] inst_name = "EOR" -> execute_EOR(c, data)
      [] inst_name = "ORA" -> execute_ORA(c, data)
      [] inst_name = "ASL" -> execute_ASL(c, data, address)
      [] inst_name = "LSR" -> execute_LSR(c, data, address)
      [] inst_name = "ROL" -> execute_ROL(c, data, address)
      [] inst_name = "ROR" -> execute_ROR(c, data, address)
      [] inst_name = "BCC" -> execute_BCC(c, data)
      [] inst_name = "BCS" -> execute_BCS(c, data)
      [] inst_name = "BNE" -> execute_BNE(c, data)
      [] inst_name = "BEQ" -> execute_BEQ(c, data)
      [] inst_name = "BIT" -> execute_BIT(c, data)
      [] inst_name = "BMI" -> execute_BMI(c, data)
      [] inst_name = "BPL" -> execute_BPL(c, data)
      [] inst_name = "BVC" -> execute_BVC(c, data)
      [] inst_name = "BVS" -> execute_BVS(c, data)
      [] inst_name = "CLC" -> execute_CLC(c)
      [] inst_name = "SEC" -> execute_SEC(c)
      [] inst_name = "CLD" -> execute_CLD(c)
      [] inst_name = "SED" -> execute_SED(c)
      [] inst_name = "CLI" -> execute_CLI(c)
      [] inst_name = "SEI" -> execute_SEI(c)
      [] inst_name = "CLV" -> execute_CLV(c)
      [] inst_name = "CMP" -> execute_CMP(c, data)
      [] inst_name = "CPX" -> execute_CPX(c, data)
      [] inst_name = "CPY" -> execute_CPY(c, data)
      [] inst_name = "DEC" -> execute_DEC(c, data, address)
      [] inst_name = "DEX" -> execute_DEX(c)
      [] inst_name = "DEY" -> execute_DEY(c)
      [] inst_name = "INC" -> execute_INC(c, data, address)
      [] inst_name = "INX" -> execute_INX(c)
      [] inst_name = "INY" -> execute_INY(c)
      [] inst_name = "JMP" -> execute_JMP(c, data)
      [] inst_name = "JSR" -> execute_JSR(c, data)
      [] inst_name = "RTS" -> execute_RTS(c)
      [] inst_name = "PHA" -> execute_PHA(c)
      [] inst_name = "PHP" -> execute_PHP(c)
      [] inst_name = "PLA" -> execute_PLA(c)
      [] inst_name = "PLP" -> execute_PLP(c)
      [] inst_name = "LDA" -> execute_LDA(c, data)
      [] inst_name = "LDX" -> execute_LDX(c, data)
      [] inst_name = "LDY" -> execute_LDY(c, data)
      [] inst_name = "NOP" -> execute_NOP(c)
      [] inst_name = "RTI" -> execute_RTI(c)
      [] inst_name = "STA" -> execute_STA(c, address)
      [] inst_name = "STX" -> execute_STX(c, address)
      [] inst_name = "STY" -> execute_STY(c, address)
      [] inst_name = "TAY" -> execute_TAY(c)
      [] inst_name = "TAX" -> execute_TAX(c)
      [] inst_name = "TSX" -> execute_TSX(c)
      [] inst_name = "TXS" -> execute_TXS(c)
      [] inst_name = "TXA" -> execute_TXA(c)
      [] inst_name = "TYA" -> execute_TYA(c)
      [] inst_name = "BRK" -> execute_BRK(c)

\* the rest of Cpu.run_next, f being what _fetch_next returned and r what
\* the addressing mode resolves (Cpu._execute resolves it before the handler)
Executed(f, r) ==
    IF f.c.err # "ok"
    THEN [c |-> f.c, f |-> f, data |-> None, address |-> None]
    ELSE [c |-> IF r.err # "ok" THEN Raise(f.c, r.err)
                ELSE Dispatch(f.c, f.inst_name, r.data, r.address),
          f |-> f, data |-> r.data, address |-> r.address]

\* what the addressing mode of the fetched instruction resolves
Addressed(f) ==
    IF f.c.err # "ok" THEN Unresolved(f.c.err)
    ELSE get_addressing_data(f.addressing_mode, f.c.memory, f.inst_data,
                             f.c.reg_x, f.c.reg_y)

\* Cpu._execute, after a fetch that returned f
execute(f) == Executed(f, Addressed(f))

\* Cpu.run_next: the Cpu afterwards (c), with what _fetch_next returned (f)
\* and what the addressing mode resolved (data, address)
run_next(c) == execute(fetch_next(c))

-----------------------------------------------------------------------------
(* The machine: a Bus over 2 KiB of internal RAM and a program ROM at      *)
(* 0x8000, the image the host wrote into it, and a Cpu constructed on it.  *)

\* most operations (steps and resets) in one behaviour of Spec
MaxOps == 3

\* the Cpu object as a record
Cur ==
    [reg_a |-> reg_a, reg_x |-> reg_x, reg_y |-> reg_y, reg_s |-> reg_s,
     pc |-> pc, reg_p |-> reg_p, memory |-> memory, err |-> "ok"]

\* the fields of the Cpu become those of c, and the exception that ended the
\* operation (if any) becomes the outcome
Becomes(c) ==
    /\ reg_a' = c.reg_a
    /\ reg_x' = c.reg_x
    /\ reg_y' = c.reg_y
    /\ reg_s' = c.reg_s
    /\ pc' = c.pc
    /\ reg_p' = c.reg_p
    /\ memory' = c.memory
    /\ outcome' = c.err
    /\ raised' = (raised \/ c.err # "ok")

\* the fields of a freshly created Cpu object, before __init__ calls reset
\* (cpu.py, the class attributes)
Fresh(bus) ==
    [reg_a |-> 0, reg_x |-> 0, reg_y |-> 0, reg_s |-> 255, pc |-> 0,
     reg_p |-> NewProcessorStatus, memory |-> bus, err |-> "ok"]

RECURSIVE Load(_, _, _)
\* the host writes the bytes of `program` to the bus from `address` on
Load(bus, address, program) ==
    IF program = <<>> THEN bus
    ELSE Load(BusSetByte(bus, address, Head(program)).bus, address + 1,
              Tail(program))

\* the bus after the host wrote the reset vector and the program
\* (computer.py, _copy_program_to_memory)
Image(prg_size, start_address, program) ==
    LET bus == NewBus(NewMemory(2048, 0), NewMemory(prg_size, 32768)) IN
    Load(BusSetWord(bus, PC_START_INDIRECT_LOCATION, 2, start_address).bus,
         start_address, program)

\* Cpu.__init__ on a bus: the state after construction
Constructed(bus) ==
    \E c \in {reset(Fresh(bus))} :
        /\ reg_a = c.reg_a
        /\ reg_x = c.reg_x
        /\ reg_y = c.reg_y
        /\ reg_s = c.reg_s
        /\ pc = c.pc
        /\ reg_p = c.reg_p
        /\ memory = c.memory
        /\ outcome = c.err
        /\ raised = (c.err # "ok")
        /\ last = [kind |-> "init"]
        /\ pre = Fresh(bus)
        /\ ops = 0

\* a Cpu the host prepared after construction (by the register setters and
\* the fields of reg_p) is in the state c
Prepared(c) ==
    /\ reg_a = c.reg_a
    /\ reg_x = c.reg_x
    /\ reg_y = c.reg_y
    /\ reg_s = c.reg_s
    /\ pc = c.pc
    /\ reg_p = c.reg_p
    /\ memory = c.memory
    /\ outcome = c.err
    /\ raised = (c.err # "ok")
    /\ last = [kind |-> "init"]
    /\ pre = c
    /\ ops = 0

\* the cartridges: a 16 KiB program ROM (mirrored) whose program starts at
\* 0x8000, and a 32 KiB one whose program starts at 0xFFF0, near the top of
\* the address space
Cartridges ==
    { [prg_size |-> 16 * 1024, start_address |-> 32768],
      [prg_size |-> 32 * 1024, start_address |-> 65520] }

\* the byte the host left at 0x0100, which the program's PLP pulls into P:
\* 0x00 (all flags clear) and 0xC3 (N, V, Z, C set)
FlagBytes == {0, 195}

\* the operand bytes of the instruction under execution: as a 16-bit
\* operand, 0x8005 (program ROM), 0x00FD (internal RAM), 0x207F (no region)
Operands == { <<5, 128>>, <<253, 0>>, <<127, 32>> }

\* the programs: PLP, then any opcode byte with its operand bytes
Programs ==
    { <<40, op, b[1], b[2]>> : op \in 0..255, b \in Operands }

\* the state after construction: a Cpu on a bus holding one of the programs
Init ==
    \E cartridge \in Cartridges, flags \in FlagBytes, program \in Programs :
        Constructed(BusSetByte(Image(cartridge.prg_size, cartridge.start_address,
                                     program),
                               256, flags).bus)

\* what `last` keeps of a call of Cpu.run_next, n being what run_next gave
StepRecord(n) ==
    [kind |-> "run_next",
     op_hex |-> n.f.op_hex,
     inst_name |-> n.f.inst_name,
     addressing_mode |-> n.f.addressing_mode,
     inst_size |-> n.f.inst_size,
     inst_data |-> n.f.inst_data,
     reads |-> n.f.reads,
     fetch_err |-> n.f.c.err,
     fetched_pc |-> n.f.c.pc,
     data |-> n.data,
     address |-> n.address]

\* one call of Cpu.run_next on the current state
Step ==
    /\ \E n \in {run_next(Cur)} :
        /\ Becomes(n.c)
        /\ last' = StepRecord(n)
    /\ pre' = Cur
    /\ ops' = ops + 1

\* the host calls Cpu.run_next
RunNext == ops < MaxOps /\ Step

\* the host calls Cpu.reset
Reset ==
    /\ ops < MaxOps
    /\ \E c \in {reset(Cur)} : Becomes(c)
    /\ last' = [kind |-> "reset"]
    /\ pre' = Cur
    /\ ops' = ops + 1

Next == RunNext \/ Reset

Spec == Init /\ [][Next]_vars

-----------------------------------------------------------------------------
(* Properties of the Cpu, checked under Spec.                              *)

\* the last operation was a call of run_next
Stepped == last.kind = "run_next"

\* the last operation was a call of run_next whose fetch found an instruction
\* of the table and read all its bytes
FetchedStep == Stepped /\ last.fetch_err = "ok"

\* the eight branch instructions
Branches == {"BCC", "BCS", "BNE", "BEQ", "BMI", "BPL", "BVC", "BVS"}

\* the instructions that assign pc in their handler
Jumps == Branches \cup {"JMP", "JSR", "RTS", "RTI"}

\* C1: in every state reached from reset by completed steps only, A, X, Y and
\* S are in 0..255 and PC is in 0..65535.
C1_RegistersInRange ==
    ~raised =>
        /\ reg_a \in 0..255
        /\ reg_x \in 0..255
        /\ reg_y \in 0..255
        /\ reg_s \in 0..255
        /\ pc \in 0..65535

\* C2: for every opcode of the table, of size n, the fetch of a step started
\* at PC = p reads exactly the bytes at p .. p+n-1 and hands the handler
\* PC = p + n; a step of an instruction that is no branch and no jump ends
\* with PC = p + n.
C2_FetchConsumesSize ==
    FetchedStep =>
        LET n == INSTRUCTION_SET[last.op_hex].inst_size IN
        /\ last.op_hex = BusGetByte(pre.memory, pre.pc).val
        /\ n \in {1, 2, 3}
        /\ last.reads = [i \in 1..n |-> pre.pc + i - 1]
        /\ last.fetched_pc = pre.pc + n
        /\ (last.inst_name \notin Jumps => pc = pre.pc + n)

\* C2 witness: a three-byte instruction that is no jump was fetched and run
C2_Witness ==
    /\ FetchedStep
    /\ outcome = "ok"
    /\ last.inst_size = 3
    /\ last.inst_name \notin Jumps
    /\ pc = pre.pc + 3

\* C3: a step whose opcode byte is not one of the 151 entries of the table
\* ends in the error of the failed lookup and leaves A, X, Y, S, PC, P and
\* every memory byte as they were.
C3_UnknownOpcodeChangesNothing ==
    /\ Cardinality(DOMAIN INSTRUCTION_SET) = 151
    /\ (Stepped /\ BusGetByte(pre.memory, pre.pc).err = "ok"
                /\ BusGetByte(pre.memory, pre.pc).val \notin DOMAIN INSTRUCTION_SET)
       => /\ outcome = "KeyError"
          /\ reg_a = pre.reg_a
          /\ reg_x = pre.reg_x
          /\ reg_y = pre.reg_y
          /\ reg_s = pre.reg_s
          /\ pc = pre.pc
          /\ reg_p = pre.reg_p
          /\ memory = pre.memory

\* C3 witness: a step on an unknown opcode, taken with some flags set
C3_Witness ==
    /\ Stepped
    /\ outcome = "KeyError"
    /\ last.op_hex \notin DOMAIN INSTRUCTION_SET
    /\ pre.reg_p.N = 1
    /\ pre.reg_s # 255

\* C4: reset sets A = X = Y = 0, S = 0xFF, every flag to 0 and PC to
\* mem[0xFFFC] + 256 * mem[0xFFFD], and changes no memory byte.
C4_ResetState ==
    last.kind = "reset" =>
        /\ outcome = "ok"
        /\ reg_a = 0 /\ reg_x = 0 /\ reg_y = 0
        /\ reg_s = 255
        /\ \A flag \in DOMAIN reg_p : reg_p[flag] = 0
        /\ DOMAIN reg_p = {"N", "V", "U", "B", "D", "I", "Z", "C"}
        /\ pc = BusGetByte(pre.memory, 65532).val
                + 256 * BusGetByte(pre.memory, 65533).val
        /\ memory = pre.memory

\* C4 witness: a reset of a Cpu whose registers, flags and memory a program
\* had changed
C4_Witness ==
    /\ last.kind = "reset"
    /\ pre.reg_s # 255
    /\ pre.reg_p.C = 1
    /\ pre.reg_a # 0
    /\ pre.pc # pc
    /\ pc = 65520

\* whether the branch inst_name is taken under the flags p
BranchCondition(inst_name, p) ==
    CASE inst_name = "BCC" -> p.C = 0
      [] inst_name = "BCS" -> p.C = 1
      [] inst_name = "BNE" -> p.Z = 0
      [] inst_name = "BEQ" -> p.Z = 1
      [] inst_name = "BMI" -> p.N = 1
      [] inst_name = "BPL" -> p.N = 0
      [] inst_name = "BVC" -> p.V = 0
      [] inst_name = "BVS" -> p.V = 1

\* C8: a branch at p with operand byte b ends with PC = p + 2 + s, s being b
\* as a signed 8-bit offset, when its condition holds, and with PC = p + 2
\* when it does not; nothing but PC changes.
C8_BranchTarget ==
    (FetchedStep /\ last.inst_name \in Branches) =>
        LET b == BusGetByte(pre.memory, pre.pc + 1).val
            s == IF b < 128 THEN b ELSE b - 256
        IN  /\ outcome = "ok"
            /\ pc = IF BranchCondition(last.inst_name, pre.reg_p)
                    THEN pre.pc + 2 + s ELSE pre.pc + 2
            /\ reg_a = pre.reg_a /\ reg_x = pre.reg_x /\ reg_y = pre.reg_y
            /\ reg_s = pre.reg_s /\ reg_p = pre.reg_p
            /\ memory = pre.memory

\* C10: JMP and JSR end the step with PC equal to the effective address of
\* their addressing mode; JSR at p also pushes the high byte, then the low
\* byte, of p + 2 and lowers S by 2.
C10_JumpTarget ==
    (FetchedStep /\ outcome = "ok" /\ last.inst_name \in {"JMP", "JSR"}) =>
        /\ pc = last.address
        /\ last.inst_name = "JSR" =>
            /\ reg_s = (pre.reg_s - 2) % 256
            /\ BusGetByte(memory, 256 + pre.reg_s).val = ((pre.pc + 2) \div 256) % 256
            /\ BusGetByte(memory, 256 + ((pre.reg_s - 1) % 256)).val = (pre.pc + 2) % 256

-----------------------------------------------------------------------------
(* The Bus on its own: the host reads and writes bytes and words.          *)

\* most bus operations in one behaviour of SpecBus
MaxBusOps == 2

\* the addresses the host uses: both ends of internal RAM and of its
\* mirrors, the PPU range and the range above it (no region), both ends of
\* program ROM and of its upper half
BusAddresses ==
    {0, 2047, 2049, 6143, 8191, 8197, 20480, 32768, 49151, 49153, 65535}

\* the values the host writes: a byte, and a value wider than a byte
BusValues == {171, 4660}

\* the Bus and a Cpu constructed on it, no program written yet
InitBus ==
    \E prg_size \in {16 * 1024, 32 * 1024} :
        Constructed(NewBus(NewMemory(2048, 0), NewMemory(prg_size, 32768)))

\* what a bus operation leaves of the Cpu: everything
CpuUnchanged == UNCHANGED <<reg_a, reg_x, reg_y, reg_s, pc, reg_p>>

\* the host evaluates bus[address]
BusRead ==
    /\ ops < MaxBusOps
    /\ \E address \in BusAddresses :
        \E r \in {BusGetByte(memory, address)} :
            /\ outcome' = r.err
            /\ raised' = (raised \/ r.err # "ok")
            /\ last' = [kind |-> "bus_read", address |-> address, val |-> r.val]
    /\ pre' = Cur
    /\ ops' = ops + 1
    /\ memory' = memory
    /\ CpuUnchanged

\* the host evaluates bus[address, 2]
BusReadWord ==
    /\ ops < MaxBusOps
    /\ \E address \in BusAddresses :
        \E r \in {BusGetWord(memory, address, 2)} :
            /\ outcome' = r.err
            /\ raised' = (raised \/ r.err # "ok")
            /\ last' = [kind |-> "bus_read_word", address |-> address, val |-> r.val]
    /\ pre' = Cur
    /\ ops' = ops + 1
    /\ memory' = memory
    /\ CpuUnchanged

\* the host executes bus[address] = value
BusWrite ==
    /\ ops < MaxBusOps
    /\ \E address \in BusAddresses, value \in BusValues :
        \E w \in {BusSetByte(memory, address, value)} :
            /\ memory' = w.bus
            /\ outcome' = w.err
            /\ raised' = (raised \/ w.err # "ok")
            /\ last' = [kind |-> "bus_write", address |-> address, value |-> value]
    /\ pre' = Cur
    /\ ops' = ops + 1
    /\ CpuUnchanged

\* the host executes bus[address, 2] = value
BusWriteWord ==
    /\ ops < MaxBusOps
    /\ \E address \in BusAddresses, value \in BusValues :
        \E w \in {BusSetWord(memory, address, 2, value)} :
            /\ memory' = w.bus
            /\ outcome' = w.err
            /\ raised' = (raised \/ w.err # "ok")
            /\ last' = [kind |-> "bus_write_word", address |-> address, value |-> value]
    /\ pre' = Cur
    /\ ops' = ops + 1
    /\ CpuUnchanged

NextBus == BusRead \/ BusReadWord \/ BusWrite \/ BusWriteWord

SpecBus == InitBus /\ [][NextBus]_vars

\* the addresses of the internal RAM range whose offset in a 2 KiB block is
\* one of the first or last two, and those of the program ROM range whose
\* offset in a 16 KiB block is
RamProbes == {a \in 0..8191 : a % 2048 \in {0, 1, 2046, 2047}}
RomProbes == {a \in 32768..65535 : a % 16384 \in {0, 1, 16382, 16383}}

\* a bus read as the host sees it: the value, or the exception
Read(bus, address) ==
    LET r == BusGetByte(bus, address) IN
    IF r.err = "ok" THEN <<"ok", r.val>> ELSE <<r.err, 0>>

\* C6: after any sequence of bus writes, a read of a < 0x2000 returns the
\* same byte as a read of a & 0x07FF, and with 16 KiB of program ROM a read
\* of a in 0x8000..0xFFFF returns the same byte as a read of a & 0xBFFF.
C6_Mirroring ==
    /\ \A a \in RamProbes :
        /\ Read(memory, a)[1] = "ok"
        /\ Read(memory, a) = Read(memory, a % 2048)
    /\ memory.cartridge_prg_rom.size = 16 * 1024 =>
        \A a \in RomProbes :
            /\ Read(memory, a)[1] = "ok"
            /\ Read(memory, a) = Read(memory, IF a >= 49152 THEN a - 16384 ELSE a)

\* C6 witness: a write through a mirror of internal RAM and one through the
\* upper half of a 16 KiB program ROM, both seen at the base addresses
C6_Witness ==
    /\ memory.cartridge_prg_rom.size = 16 * 1024
    /\ last.kind = "bus_write"
    /\ last.address = 49153
    /\ Read(memory, 49153) = <<"ok", 171>>
    /\ Read(memory, 32769) = <<"ok", 171>>
    /\ Read(memory, 2049) = <<"ok", 52>>
    /\ Read(memory, 1) = <<"ok", 52>>

\* the addresses that map to no region: 0x2000 .. 0x7FFF
Unmapped(address) == address >= 8192 /\ address <= 32767

\* C7: a bus read of an address that maps to no region returns 0 without
\* raising, and a bus write to one completes without error and changes no
\* byte of internal RAM or program ROM.
C7_UnmappedAccess ==
    /\ (last.kind = "bus_read" /\ Unmapped(last.address))
        => (outcome = "ok" /\ last.val = 0)
    /\ (last.kind = "bus_write" /\ Unmapped(last.address))
        => (outcome = "ok" /\ memory = pre.memory)

-----------------------------------------------------------------------------
(* The stack on its own: pushes and pulls at every kind of stack pointer.  *)

\* most stack operations in one behaviour of SpecStack
MaxStackOps == 3

\* the stack pointers the host sets: both ends, the middle, and the
\* neighbours of the ends
StackPointers == {0, 1, 127, 128, 254, 255}

\* the bytes pushed
StackValues == {0, 1, 127, 128, 255}

\* the host assigns cpu.reg_s (the reg_s setter)
SetRegS ==
    /\ ops < MaxStackOps
    /\ \E s \in StackPointers :
        /\ \E c \in {set_reg_s(Cur, s)} : Becomes(c)
        /\ last' = [kind |-> "set_reg_s", value |-> s]
    /\ pre' = Cur
    /\ ops' = ops + 1

\* a call of Cpu._push_stack
PushStack ==
    /\ ops < MaxStackOps
    /\ \E value \in StackValues :
        /\ \E c \in {push_stack(Cur, value)} : Becomes(c)
        /\ last' = [kind |-> "push", value |-> value]
    /\ pre' = Cur
    /\ ops' = ops + 1

\* a call of Cpu._pop_stack; `last` keeps what the call returned and, when
\* the operation before it was a push, what was pushed and from which S
PopStack ==
    /\ ops < MaxStackOps
    /\ \E r \in {pop_stack(Cur)} :
        /\ Becomes(r.c)
        /\ last' = [kind |-> "pop",
                    val |-> r.val,
                    after_push |-> (last.kind = "push"),
                    pushed |-> IF last.kind = "push" THEN last.value ELSE None,
                    s_before_push |-> pre.reg_s]
    /\ pre' = Cur
    /\ ops' = ops + 1

NextStack == SetRegS \/ PushStack \/ PopStack

SpecStack == InitBus /\ [][NextStack]_vars

\* C5: for every stack pointer S, a push of v immediately followed by a pull
\* returns v and leaves S as it was before the push (also from S = 0, where
\* the push wraps S to 0xFF), and the push writes only the byte at 0x0100 + S.
C5_PushPullRoundTrip ==
    /\ (last.kind = "pop" /\ last.after_push) =>
        /\ outcome = "ok"
        /\ last.val = last.pushed
        /\ reg_s = last.s_before_push
    /\ last.kind = "push" =>
        /\ outcome = "ok"
        /\ reg_s = (pre.reg_s + 255) % 256
        /\ Cell(memory.cpu_memory, 256 + pre.reg_s) = last.value
        /\ \A a \in (0..2047) \ {256 + pre.reg_s} :
            Cell(memory.cpu_memory, a) = Cell(pre.memory.cpu_memory, a)
        /\ memory.cartridge_prg_rom = pre.memory.cartridge_prg_rom
        /\ <<reg_a, reg_x, reg_y, pc, reg_p>>
            = <<pre.reg_a, pre.reg_x, pre.reg_y, pre.pc, pre.reg_p>>

\* C5 witness: a non-zero byte pushed at S = 0 and pulled again
C5_Witness ==
    /\ last.kind = "pop"
    /\ last.after_push
    /\ last.s_before_push = 0
    /\ pre.reg_s = 255
    /\ last.pushed = 128
    /\ last.val = 128
    /\ reg_s = 0

-----------------------------------------------------------------------------
(* The countdown loop LDX #n; DEX; BNE -3 at 0x8000.                       *)

\* most steps in one behaviour of SpecLoop: the 10 steps of n = 5 and two more
MaxLoopSteps == 12

\* the loop counts
LoopCounts == 1..255

\* the bytes A2 n CA D0 FD
LoopProgram(n) == <<162, n, 202, 208, 253>>

\* the n the program on the bus was written with
LoopCount == Read(memory, 32769)[2]

\* the last step was a BNE that was not taken, with X = 0 and Z = 1
LoopDone ==
    /\ Stepped
    /\ last.inst_name = "BNE"
    /\ pre.reg_p.Z # 0
    /\ reg_x = 0
    /\ reg_p.Z = 1

InitLoop ==
    \E n \in LoopCounts : Constructed(Image(16 * 1024, 32768, LoopProgram(n)))

\* the host calls Cpu.run_next until the loop is left
LoopStep == ops < MaxLoopSteps /\ ~LoopDone /\ Step

SpecLoop == InitLoop /\ [][LoopStep]_vars

\* C9: until the BNE that is not taken (X = 0, Z = 1) no step raises and PC
\* stays within 0x8000..0x8004, and X = 0 with Z = 1 is first reached after
\* exactly 2n steps.
C9_CountdownLoop ==
    /\ outcome = "ok"
    /\ ~LoopDone => pc \in 32768..32772
    /\ LoopDone => ops = 2 * LoopCount + 1
    /\ (ops > 0 /\ ops <= 2 * LoopCount) =>
        ((reg_x = 0 /\ reg_p.Z = 1) <=> ops = 2 * LoopCount)

-----------------------------------------------------------------------------
(* Subroutine calls: a JSR, a subroutine body in internal RAM, an RTS.     *)

\* most steps in one behaviour of SpecCall: the JSR and the longest body
MaxCallSteps == 5

\* the subroutine bodies: RTS; NOP RTS; PHA PLA RTS (S comes back); PHA RTS
\* (S does not come back); PLA TXA PHA RTS (S comes back, the low byte of the
\* return address is overwritten with X)
CallBodies ==
    { <<96>>, <<234, 96>>, <<72, 104, 96>>, <<72, 96>>, <<104, 138, 72, 96>> }

\* the address the JSR names (0x0010) and the byte the host left there, which
\* the JSR handler assigns to pc: the subroutine body starts at 0x0020
CallOperand == 16
CallEntry == 32

\* a Cpu on a bus holding JSR $0010 at the start address and one of the
\* bodies at 0x0020, the host having set the stack pointer
InitCall ==
    \E cartridge \in Cartridges, s \in StackPointers, body \in CallBodies :
        \E image \in {Image(cartridge.prg_size, cartridge.start_address,
                            <<32, CallOperand, 0>>)} :
            \E bus \in {Load(BusSetByte(image, CallOperand, CallEntry).bus,
                             CallEntry, body)} :
                \E c \in {reset(Fresh(bus))} :
                    Prepared(set_reg_s(c, s))

\* the JSR a step belongs to: the one it executes, else the one recorded by
\* the step before it
CallOf(n) ==
    IF n.f.c.err = "ok" /\ n.f.inst_name = "JSR" /\ n.c.err = "ok"
    THEN [jsr |-> TRUE, jsr_p |-> pc, jsr_s |-> reg_s]
    ELSE IF "jsr" \in DOMAIN last
    THEN [jsr |-> last.jsr, jsr_p |-> last.jsr_p, jsr_s |-> last.jsr_s]
    ELSE [jsr |-> FALSE, jsr_p |-> None, jsr_s |-> None]

\* the host calls Cpu.run_next; `last` also keeps where the latest JSR was
\* and the stack pointer it started from
CallStep ==
    /\ ops < MaxCallSteps
    /\ \E n \in {run_next(Cur)} :
        /\ Becomes(n.c)
        /\ last' = StepRecord(n) @@ CallOf(n)
    /\ pre' = Cur
    /\ ops' = ops + 1

SpecCall == InitCall /\ [][CallStep]_vars

\* an RTS was executed from a state where S was back at its value after the
\* recorded JSR and the two bytes that JSR pushed were still on the stack
ReturnsFromCall ==
    /\ Stepped
    /\ last.fetch_err = "ok"
    /\ last.inst_name = "RTS"
    /\ last.jsr
    /\ pre.reg_s = (last.jsr_s + 254) % 256
    /\ Read(pre.memory, 256 + last.jsr_s) = <<"ok", ((last.jsr_p + 2) \div 256) % 256>>
    /\ Read(pre.memory, 256 + ((last.jsr_s + 255) % 256)) = <<"ok", (last.jsr_p + 2) % 256>>

\* C11: an RTS executed after a JSR at p, with S back at its post-JSR value
\* and the two pushed bytes intact, ends with PC = p + 3 and S equal to its
\* value before the JSR, also when the stack pointer wraps around.
C11_ReturnAfterCall ==
    ReturnsFromCall =>
        /\ outcome = "ok"
        /\ pc = last.jsr_p + 3
        /\ reg_s = last.jsr_s

\* C11 witness: a call made with S = 0 (the pushes wrap S to 0xFE), a body
\* that pushes and pulls, and the return
C11_Witness ==
    /\ ReturnsFromCall
    /\ last.jsr_s = 0
    /\ pre.reg_s = 254
    /\ ops = 4
    /\ pc = last.jsr_p + 3
    /\ reg_s = 0

-----------------------------------------------------------------------------
(* Arithmetic, loads, transfers and compares: one instruction on prepared  *)
(* registers.                                                              *)

\* most steps in one behaviour of SpecAlu
MaxAluSteps == 1

\* the bytes the registers and the operand are drawn from: both ends, the
\* sign boundary, and the 0x50 and 0xC0 of the documented programs
AluBytes == {0, 1, 80, 127, 128, 192, 254, 255}

\* opcodes with an immediate operand: ORA AND EOR ADC LDY LDX LDA CPY CMP CPX
\* SBC
AluImmediate == {9, 41, 73, 105, 160, 162, 169, 192, 201, 224, 233}

\* opcodes with a zero-page operand: ASL ROL LSR ROR DEC INC
AluZeroPage == {6, 38, 70, 102, 198, 230}

\* opcodes without operand: ASL A, ROL A, LSR A, ROR A, PLA, DEY, TXA, TYA,
\* TAY, TAX, TSX, INY, DEX, INX
AluImplied == {10, 42, 74, 106, 104, 136, 138, 152, 168, 170, 186, 200, 202, 232}

\* the zero-page address of the memory operand
AluAddress == 16

\* the instruction bytes: the operand byte is the value for an immediate
\* opcode and the address of the value for the others
AluProgram(op, value) ==
    <<op, IF op \in AluImmediate THEN value ELSE AluAddress, 0>>

\* a Cpu on a bus holding one instruction at 0x8000, the host having set
\* A = S = r, X = Y = 255 - r and the carry flag, and having written the
\* operand value to the zero page and to the stack cell a pull reads
InitAlu ==
    \E r \in AluBytes, value \in AluBytes, carry \in {0, 1},
       op \in AluImmediate \cup AluZeroPage \cup AluImplied :
        \E image \in {Image(16 * 1024, 32768, AluProgram(op, value))} :
            \E bus \in {BusSetByte(BusSetByte(image, AluAddress, value).bus,
                                   256 + ((r + 1) % 256), value).bus} :
                \E c \in {reset(Fresh(bus))} :
                    \E d \in {set_reg_s(set_reg_y(set_reg_x(set_reg_a(c, r),
                                  255 - r), 255 - r), r)} :
                        Prepared([d EXCEPT !.reg_p.C = carry])

\* the host calls Cpu.run_next
AluStep == ops < MaxAluSteps /\ Step

SpecAlu == InitAlu /\ [][AluStep]_vars

\* the last operation was a step that fetched the instruction inst_name
Ran(inst_name) == FetchedStep /\ last.inst_name = inst_name

\* bit 7 of a byte
Bit7(byte) == byte \div 128

\* what the 6502 adds: A, the operand and the carry
AdcSum(a, value, carry) == a + value + carry

\* C12: ADC leaves A = (A + value + C) mod 256 and C = 1 exactly when
\* A + value + C > 255: the carry-in takes part in the sum.
C12_AdcSum ==
    Ran("ADC") =>
        LET r == AdcSum(pre.reg_a, last.data, pre.reg_p.C) IN
        /\ outcome = "ok"
        /\ reg_a = r % 256
        /\ reg_p.C = IF r > 255 THEN 1 ELSE 0

\* C13: ADC sets V to 1 exactly when bit 7 of A equals bit 7 of the value and
\* differs from bit 7 of (A + value + C) mod 256, and to 0 otherwise.
C13_AdcOverflow ==
    Ran("ADC") =>
        LET r == AdcSum(pre.reg_a, last.data, pre.reg_p.C) % 256 IN
        /\ outcome = "ok"
        /\ reg_p.V = IF Bit7(pre.reg_a) = Bit7(last.data)
                        /\ Bit7(pre.reg_a) # Bit7(r)
                     THEN 1 ELSE 0

\* the instructions that set Z and N from a result, by destination
ToA == {"ADC", "AND", "EOR", "ORA", "LDA", "PLA", "TXA", "TYA"}
ToX == {"DEX", "LDX", "TAX", "TSX"}
ToY == {"DEY", "LDY", "TAY"}
ToOperand == {"ASL", "LSR", "ROL", "ROR", "INC", "DEC"}

\* the 8-bit value the last step stored in its destination
Stored ==
    IF last.inst_name \in ToA THEN reg_a
    ELSE IF last.inst_name \in ToX THEN reg_x
    ELSE IF last.inst_name \in ToY THEN reg_y
    ELSE IF last.address = None THEN reg_a
    ELSE Read(memory, last.address)[2]

\* C14: after every instruction that sets Z and N from a result, Z = 1
\* exactly when the 8-bit value stored in the destination is 0, and N is
\* bit 7 of that stored value.
C14_ZeroAndNegative ==
    (FetchedStep /\ last.inst_name \in ToA \cup ToX \cup ToY \cup ToOperand) =>
        /\ outcome = "ok"
        /\ reg_p.Z = IF Stored = 0 THEN 1 ELSE 0
        /\ reg_p.N = Bit7(Stored)

\* C15: a step executing SBC completes without error and leaves A and the
\* flags C, V, Z, N as an ADC of 255 - value with the current carry would.
C15_SubtractWithCarry ==
    Ran("SBC") =>
        LET v == 255 - last.data
            r == AdcSum(pre.reg_a, v, pre.reg_p.C)
        IN  /\ outcome = "ok"
            /\ reg_a = r % 256
            /\ reg_p.C = IF r > 255 THEN 1 ELSE 0
            /\ reg_p.V = IF Bit7(pre.reg_a) = Bit7(v)
                            /\ Bit7(pre.reg_a) # Bit7(r % 256)
                         THEN 1 ELSE 0
            /\ reg_p.Z = IF r % 256 = 0 THEN 1 ELSE 0
            /\ reg_p.N = Bit7(r % 256)

\* C16: INX, INY, DEX and DEY set their register to the old value plus or
\* minus 1 mod 256, Z = 1 exactly when the new value is 0 and N to bit 7 of
\* the new value.
C16_IncrementDecrement ==
    /\ Ran("INX") => /\ reg_x = (pre.reg_x + 1) % 256
                     /\ reg_p.Z = IF reg_x = 0 THEN 1 ELSE 0
                     /\ reg_p.N = Bit7(reg_x)
    /\ Ran("INY") => /\ reg_y = (pre.reg_y + 1) % 256
                     /\ reg_p.Z = IF reg_y = 0 THEN 1 ELSE 0
                     /\ reg_p.N = Bit7(reg_y)
    /\ Ran("DEX") => /\ reg_x = (pre.reg_x + 255) % 256
                     /\ reg_p.Z = IF reg_x = 0 THEN 1 ELSE 0
                     /\ reg_p.N = Bit7(reg_x)
    /\ Ran("DEY") => /\ reg_y = (pre.reg_y + 255) % 256
                     /\ reg_p.Z = IF reg_y = 0 THEN 1 ELSE 0
                     /\ reg_p.N = Bit7(reg_y)

\* the register a compare instruction reads
Compared ==
    IF last.inst_name = "CMP" THEN pre.reg_a
    ELSE IF last.inst_name = "CPX" THEN pre.reg_x
    ELSE pre.reg_y

\* C17: CMP, CPX and CPY set C = 1 exactly when reg >= value, Z = 1 exactly
\* when reg = value and N to bit 7 of (reg - value) mod 256, and leave A, X,
\* Y, S and memory unchanged.
C17_Compare ==
    (FetchedStep /\ last.inst_name \in {"CMP", "CPX", "CPY"}) =>
        /\ outcome = "ok"
        /\ reg_p.C = IF Compared >= last.data THEN 1 ELSE 0
        /\ reg_p.Z = IF Compared = last.data THEN 1 ELSE 0
        /\ reg_p.N = Bit7((Compared - last.data) % 256)
        /\ <<reg_a, reg_x, reg_y, reg_s, memory>>
            = <<pre.reg_a, pre.reg_x, pre.reg_y, pre.reg_s, pre.memory>>

-----------------------------------------------------------------------------
(* ProcessorStatus on its own: to_int and from_int on the status register. *)

\* most operations in one behaviour of SpecStatus
MaxStatusOps == 2

\* the statuses whose eight flags are each 0 or 1
Statuses ==
    [N : {0, 1}, V : {0, 1}, U : {0, 1}, B : {0, 1},
     D : {0, 1}, I : {0, 1}, Z : {0, 1}, C : {0, 1}]

\* the integers handed to from_int: bytes, negative integers and integers
\* wider than a byte
StatusInts == {-256, -129, -1, 0, 1, 85, 170, 255, 256, 511, 65535}

\* a Cpu whose status register the host set to any of the statuses
InitStatus ==
    \E p \in Statuses :
        \E c \in {reset(Fresh(NewBus(NewMemory(2048, 0),
                                     NewMemory(16 * 1024, 32768))))} :
            Prepared([c EXCEPT !.reg_p = p])

\* what a status operation leaves alone
StatusOnly ==
    /\ UNCHANGED <<reg_a, reg_x, reg_y, reg_s, pc, memory, outcome, raised>>
    /\ pre' = Cur
    /\ ops' = ops + 1

\* the host evaluates cpu.reg_p.to_int(); `last` keeps the result and, when
\* the operation before was a from_int, the integer that was given
StatusToInt ==
    /\ ops < MaxStatusOps
    /\ last' = [kind |-> "to_int",
                val |-> to_int(reg_p),
                after_from_int |-> (last.kind = "from_int"),
                v |-> IF last.kind = "from_int" THEN last.v ELSE 0]
    /\ reg_p' = reg_p
    /\ StatusOnly

\* the host executes cpu.reg_p = ProcessorStatus.from_int(v)
StatusFromInt ==
    /\ ops < MaxStatusOps
    /\ \E v \in StatusInts :
        /\ reg_p' = from_int(v)
        /\ last' = [kind |-> "from_int", v |-> v]
    /\ StatusOnly

\* the host executes cpu.reg_p = ProcessorStatus.from_int(cpu.reg_p.to_int())
StatusFromIntOfToInt ==
    /\ ops < MaxStatusOps
    /\ \E val \in {to_int(reg_p)} :
        /\ reg_p' = from_int(val)
        /\ last' = [kind |-> "from_int_of_to_int", val |-> val]
    /\ StatusOnly

NextStatus == StatusToInt \/ StatusFromInt \/ StatusFromIntOfToInt

SpecStatus == InitStatus /\ [][NextStatus]_vars

\* the byte with the flags of p at N(7) V(6) unused(5) B(4) D(3) I(2) Z(1) C(0)
Packed(p) ==
    128 * p.N + 64 * p.V + 32 * p.U + 16 * p.B + 8 * p.D + 4 * p.I + 2 * p.Z + p.C

\* C18: for every status p of flags 0 or 1, from_int(p.to_int()) equals p;
\* for every integer v, from_int(v).to_int() equals v mod 256; the bits are
\* packed as N(7) V(6) unused(5) B(4) D(3) I(2) Z(1) C(0).
C18_StatusRoundTrip ==
    /\ last.kind = "from_int_of_to_int" =>
        /\ pre.reg_p \in Statuses
        /\ reg_p = pre.reg_p
        /\ last.val = Packed(pre.reg_p)
    /\ last.kind = "to_int" =>
        /\ last.val = Packed(reg_p)
        /\ last.after_from_int => last.val = last.v % 256
    /\ last.kind = "from_int" =>
        /\ reg_p \in Statuses
        /\ Packed(reg_p) = last.v % 256

\* C18 witness: the round trip of a status with the unused flag set
C18_Witness ==
    /\ last.kind = "from_int_of_to_int"
    /\ last.val = 170
    /\ reg_p = [N |-> 1, V |-> 0, U |-> 1, B |-> 0, D |-> 1, I |-> 0, Z |-> 1, C |-> 0]
    /\ pre.reg_p = reg_p

-----------------------------------------------------------------------------
(* A Memory region on its own: byte and word accesses around its bounds.   *)
(* In SpecMem the variable `memory` holds the region itself, not a Bus.    *)

\* most accesses in one behaviour of SpecMem
MaxMemOps == 2

\* the absolute addresses used on the region of 4 bytes at base address 16:
\* from below base - size to the first address past the end
MemAddresses == 11..20

\* the values written: a byte, a negative integer, values wider than a byte
MemValues == {-1, 171, 510, 4660}

\* a region of 4 bytes at base address 16 in which the host stored 1, 2, 3, 4
InitMem ==
    \E m0 \in {NewMemory(4, 16)} :
     \E m1 \in {MemorySetByte(m0, 16, 1).mem} :
      \E m2 \in {MemorySetByte(m1, 17, 2).mem} :
       \E m3 \in {MemorySetByte(m2, 18, 3).mem} :
        \E m4 \in {MemorySetByte(m3, 19, 4).mem} :
            Prepared(Fresh(m4))

\* what a memory access leaves alone: the Cpu
MemOnly ==
    /\ UNCHANGED <<reg_a, reg_x, reg_y, reg_s, pc, reg_p>>
    /\ pre' = Cur
    /\ ops' = ops + 1

\* the host evaluates memory[address]
MemRead ==
    /\ ops < MaxMemOps
    /\ \E address \in MemAddresses :
        \E r \in {MemoryGetByte(memory, address)} :
            /\ outcome' = r.err
            /\ raised' = (raised \/ r.err # "ok")
            /\ last' = [kind |-> "mem_read", address |-> address, val |-> r.val]
    /\ memory' = memory
    /\ MemOnly

\* the host evaluates memory[address, 2]
MemReadWord ==
    /\ ops < MaxMemOps
    /\ \E address \in MemAddresses :
        \E r \in {MemoryGetWord(memory, address, 2)} :
            /\ outcome' = r.err
            /\ raised' = (raised \/ r.err # "ok")
            /\ last' = [kind |-> "mem_read_word", address |-> address, val |-> r.val]
    /\ memory' = memory
    /\ MemOnly

\* the host executes memory[address] = value
MemWrite ==
    /\ ops < MaxMemOps
    /\ \E address \in MemAddresses, value \in MemValues :
        \E w \in {MemorySetByte(memory, address, value)} :
            /\ memory' = w.mem
            /\ outcome' = w.err
            /\ raised' = (raised \/ w.err # "ok")
            /\ last' = [kind |-> "mem_write", address |-> address, value |-> value]
    /\ MemOnly

\* the host executes memory[address, 2] = value
MemWriteWord ==
    /\ ops < MaxMemOps
    /\ \E address \in MemAddresses, value \in MemValues :
        \E w \in {MemorySetWord(memory, address, 2, value)} :
            /\ memory' = w.mem
            /\ outcome' = w.err
            /\ raised' = (raised \/ w.err # "ok")
            /\ last' = [kind |-> "mem_write_word", address |-> address, value |-> value]
    /\ MemOnly

NextMem == MemRead \/ MemReadWord \/ MemWrite \/ MemWriteWord

SpecMem == InitMem /\ [][NextMem]_vars

\* the last access was at an address outside the region as it was before:
\* below the base address or past the end (for a word, its second byte too)
OutOfRegion ==
    /\ last.kind \in {"mem_read", "mem_read_word", "mem_write", "mem_write_word"}
    /\ LET b == pre.memory.base_address
           n == pre.memory.size
           width == IF last.kind \in {"mem_read_word", "mem_write_word"} THEN 2 ELSE 1
       IN  last.address < b \/ last.address + width - 1 >= b + n

\* C20: a byte or word read or write at an address below the base address of
\* the region or past its end fails with an out-of-bounds error and leaves
\* the region unchanged.
C20_OutOfBounds ==
    OutOfRegion => (outcome = "IndexError" /\ memory = pre.memory)

-----------------------------------------------------------------------------
(* Writes of every kind: instruction handlers that store results wider     *)
(* than a byte or negative, and byte, word and slice writes by the host.   *)

\* most operations in one behaviour of SpecWrites
MaxWriteOps == 2

\* the instructions: BRK, ASL $10, PHP, JSR $0010, ROL $10, ROR $10, DEC $10,
\* INC $10 (each followed by zero bytes, which are BRK)
WritePrograms ==
    { <<0>>, <<6, 16>>, <<8>>, <<32, 16, 0>>, <<38, 16>>, <<102, 16>>,
      <<198, 16>>, <<230, 16>> }

\* a Cpu on a bus holding one of the instructions at 0x8000 and 0x00 or 0xFF
\* at the zero-page address 0x10 it works on
InitWrites ==
    \E program \in WritePrograms, value \in {0, 255} :
        Constructed(BusSetByte(Image(16 * 1024, 32768, program), 16, value).bus)

\* the host calls Cpu.run_next
WriteStep == ops < MaxWriteOps /\ Step

\* the host executes bus[address] = value
HostWrite ==
    /\ ops < MaxWriteOps
    /\ \E address \in {16, 32768}, value \in {-1, 510} :
        \E w \in {BusSetByte(memory, address, value)} :
            /\ memory' = w.bus
            /\ outcome' = w.err
            /\ raised' = (raised \/ w.err # "ok")
            /\ last' = [kind |-> "bus_write", address |-> address, value |-> value]
    /\ pre' = Cur
    /\ ops' = ops + 1
    /\ CpuUnchanged

\* the host executes bus[address, 2] = value
HostWriteWord ==
    /\ ops < MaxWriteOps
    /\ \E address \in {2047, 32768}, value \in {-2, 70000} :
        \E w \in {BusSetWord(memory, address, 2, value)} :
            /\ memory' = w.bus
            /\ outcome' = w.err
            /\ raised' = (raised \/ w.err # "ok")
            /\ last' = [kind |-> "bus_write_word", address |-> address, value |-> value]
    /\ pre' = Cur
    /\ ops' = ops + 1
    /\ CpuUnchanged

\* the host executes bus[start:stop] = value, value a list
HostWriteSlice ==
    /\ ops < MaxWriteOps
    /\ \E key \in {<<16, 18>>, <<32768, 32771>>}, value \in {<<300, -1, 0>>, <<7>>} :
        \E w \in {BusSetSlice(memory, key[1], key[2], value)} :
            /\ memory' = w.bus
            /\ outcome' = w.err
            /\ raised' = (raised \/ w.err # "ok")
            /\ last' = [kind |-> "bus_write_slice", start |-> key[1],
                        stop |-> key[2], value |-> value]
    /\ pre' = Cur
    /\ ops' = ops + 1
    /\ CpuUnchanged

NextWrites == WriteStep \/ HostWrite \/ HostWriteWord \/ HostWriteSlice

SpecWrites == InitWrites /\ [][NextWrites]_vars

\* every element of the region m that is not 0 is an integer in 1..255 at an
\* index of the list
BytesOnly(m) ==
    \A k \in DOMAIN m.cells : k \in 0..(m.size - 1) /\ m.cells[k] \in 1..255

\* C19: after any sequence of byte, word and slice writes, including the
\* writes of instruction handlers that pass results wider than 8 bits or
\* negative, every element of each Memory region is an integer in 0..255.
C19_BytesStored ==
    BytesOnly(memory.cpu_memory) /\ BytesOnly(memory.cartridge_prg_rom)

\* C19 witness: after a write by the host, ASL of a byte holding 0xFF passed
\* 0x1FE to the memory (N was set from it) and 0xFE was stored
C19_Witness ==
    /\ Stepped
    /\ last.fetch_err = "ok"
    /\ last.inst_name = "ASL"
    /\ last.data = 255
    /\ ops = 2
    /\ reg_p.N = 3
    /\ Read(pre.memory, 16) = <<"ok", 255>>
    /\ Read(memory, 16) = <<"ok", 254>>

-----------------------------------------------------------------------------
(* The cartridge reader: the header of a cartridge file.                   *)

\* most headers parsed in one behaviour of SpecHeader
MaxHeaderOps == 1

PRG_ROM_PAGE_SIZE == 16 * 1024

CHR_ROM_PAGE_SIZE == 8 * 1024

\* the fields of a CartridgeReader on which _parse_header raised: none is set
NoHeader(err) ==
    [err |-> err, prg_rom_size |-> None, chr_rom_size |-> None,
     prg_rom_start |-> None, chr_rom_start |-> None, mapper_type |-> None,
     mirroring_type |-> "None"]

\* CartridgeReader._parse_header on the 16 bytes read from the file; byte i
\* of the file is header[i + 1], and a member of the enumeration
\* MirroringType is represented by its name
parse_header(header) ==
    LET control_byte_1 == header[7]
        control_byte_2 == header[8]
    IN  IF SubSeq(header, 1, 4) # <<78, 69, 83, 26>> THEN NoHeader("ValueError")
        ELSE IF BitAnd(control_byte_2, 12) = 8 THEN NoHeader("ValueError")
        ELSE
            LET prg_rom_size == header[5] * PRG_ROM_PAGE_SIZE
                chr_rom_size == header[6] * CHR_ROM_PAGE_SIZE
                skip_trainer == BitAnd(control_byte_1, 4)
                prg_rom_start == 16 + (skip_trainer * 512)
                mirroring_type_value == BitAnd(control_byte_1, 3)
            IN  [err |-> "ok",
                 prg_rom_size |-> prg_rom_size,
                 chr_rom_size |-> chr_rom_size,
                 prg_rom_start |-> prg_rom_start,
                 chr_rom_start |-> prg_rom_start + prg_rom_size,
                 mapper_type |-> BitOr(BitAnd(control_byte_1, 240),
                                       Shr(control_byte_2, 4)),
                 mirroring_type |->
                     IF mirroring_type_value = 0 THEN "HORIZONTAL"
                     ELSE IF mirroring_type_value = 1 THEN "VERTICAL"
                     ELSE "FOUR_SCREEN"]

\* the first four bytes of the file: "NES\x1a", and the same with a wrong
\* fourth byte
Magics == { <<78, 69, 83, 26>>, <<78, 69, 83, 0>> }

\* byte 4: the number of 16 KiB pages of program ROM
PrgPages == {0, 1, 2, 255}

\* byte 5: the number of 8 KiB pages of character ROM
ChrPages == {0, 1, 255}

\* byte 6: mirroring in bits 0-1, trainer in bit 2, mapper in bits 4-7
ControlBytes1 == {0, 1, 2, 4, 5, 246, 255}

\* byte 7: the NES 2.0 mark in bits 2-3 (8 and 248 carry it), mapper in
\* bits 4-7
ControlBytes2 == {0, 4, 8, 12, 16, 244, 248}

\* the host creates a CartridgeReader on a file: __init__ reads 16 bytes and
\* calls _parse_header; `last` keeps the header and the fields of the reader
ParseHeader ==
    /\ ops < MaxHeaderOps
    /\ \E magic \in Magics, prg \in PrgPages, chr \in ChrPages,
          c1 \in ControlBytes1, c2 \in ControlBytes2 :
        \E header \in {magic \o <<prg, chr, c1, c2, 0, 0, 0, 0, 0, 0, 0, 0>>} :
            \E r \in {parse_header(header)} :
                /\ last' = [kind |-> "parse_header", header |-> header] @@ r
                /\ outcome' = r.err
                /\ raised' = (raised \/ r.err # "ok")
    /\ pre' = Cur
    /\ ops' = ops + 1
    /\ CpuUnchanged
    /\ UNCHANGED memory

\* the reader next to a Cpu and a Bus it leaves alone; no header parsed yet
SpecHeader == InitBus /\ [][ParseHeader]_vars

\* a header of the first revision of the format: the magic, and bits 2-3 of
\* byte 7 other than binary 10
ValidHeader(header) ==
    /\ SubSeq(header, 1, 4) = <<78, 69, 83, 26>>
    /\ (header[8] \div 4) % 4 # 2

\* C21: for every valid iNES 1.0 header the parser yields prg_rom_size =
\* header[4] * 16384, chr_rom_size = header[5] * 8192, prg_rom_start = 16
\* when bit 2 of header[6] is clear and 528 when it is set, and
\* chr_rom_start = prg_rom_start + prg_rom_size.
C21_HeaderFields ==
    (last.kind = "parse_header" /\ ValidHeader(last.header)) =>
        /\ last.err = "ok"
        /\ last.prg_rom_size = last.header[5] * 16384
        /\ last.chr_rom_size = last.header[6] * 8192
        /\ last.prg_rom_start =
               (IF (last.header[7] \div 4) % 2 = 0 THEN 16 ELSE 528)
        /\ last.chr_rom_start = last.prg_rom_start + last.prg_rom_size

-----------------------------------------------------------------------------
(* Addressing: one instruction with an absolute or an indirect indexed     *)
(* operand, on prepared index registers and a patterned internal RAM.      *)

\* most steps in one behaviour of SpecAddr
MaxAddrSteps == 1

\* the opcodes of the instructions with an absolute operand
AbsoluteOpcodes ==
    {op \in DOMAIN INSTRUCTION_SET :
        INSTRUCTION_SET[op].addressing_mode
            \in {"ABSOLUTE", "ABSOLUTE_X", "ABSOLUTE_Y"}}

\* the opcodes of the instructions with an indirect indexed operand
IndirectYOpcodes ==
    {op \in DOMAIN INSTRUCTION_SET :
        INSTRUCTION_SET[op].addressing_mode = "INDIRECT_Y"}

\* the operand bytes b1, b2 of an absolute instruction: 0x0110 and 0x07FF
\* (internal RAM), 0x0A10 (a mirror), 0x1FFF (the last mirrored address),
\* 0x8001 (program ROM), 0xFFFF (the last address)
AddrOperands ==
    { <<16, 1>>, <<255, 7>>, <<16, 10>>, <<255, 31>>, <<1, 128>>, <<255, 255>> }

\* the operand byte of an indirect indexed instruction: a pointer in the
\* middle of the zero page and one in its last byte
AddrZeroPage == {16, 255}

\* the two bytes of the pointer, low then high
AddrPointers ==
    { <<16, 0>>, <<255, 0>>, <<255, 1>>, <<240, 7>>, <<128, 2>>, <<1, 128>> }

\* the index registers X, Y
AddrIndexes == { <<0, 0>>, <<1, 255>>, <<255, 1>>, <<128, 16>> }

\* the bytes the host fills internal RAM with: a different byte at a, a + 1,
\* a + 255 and a + 256
RamPattern == [i \in 1..2048 |-> ((i * 7) + ((i \div 256) * 13) + 3) % 256]

\* a bus over 32 KiB of program ROM and an internal RAM the host filled, by
\* one slice write to the Memory, before it created the Bus
PatternedBus ==
    NewBus(MemorySetSlice(NewMemory(2048, 0), 0, 2048, RamPattern).mem,
           NewMemory(32 * 1024, 32768))

\* the instructions with their operand bytes and, for an indirect indexed
\* one, the pointer the host wrote at the operand's zero-page address
AddrPrograms ==
    { [bytes |-> <<op, o[1], o[2]>>, pointer |-> <<>>] :
        op \in AbsoluteOpcodes, o \in AddrOperands }
    \cup
    { [bytes |-> <<op, zp>>, pointer |-> <<zp, p[1], p[2]>>] :
        op \in IndirectYOpcodes, zp \in AddrZeroPage, p \in AddrPointers }

\* a Cpu on the patterned bus holding one instruction at 0x8000, the host
\* having written the pointer and set X and Y
InitAddr ==
    \E program \in AddrPrograms, xy \in AddrIndexes :
        \E image \in {Load(BusSetWord(PatternedBus, PC_START_INDIRECT_LOCATION,
                                      2, 32768).bus,
                           32768, program.bytes)} :
            \E bus \in {IF program.pointer = <<>> THEN image
                        ELSE Load(image, program.pointer[1],
                                  Tail(program.pointer))} :
                \E c \in {reset(Fresh(bus))} :
                    Prepared(set_reg_y(set_reg_x(c, xy[1]), xy[2]))

\* the host calls Cpu.run_next
AddrStep == ops < MaxAddrSteps /\ Step

SpecAddr == InitAddr /\ [][AddrStep]_vars

\* the step resolved its operand as a bus read at address ea does: the byte
\* read and ea go to the handler, or the error of the read ends the step
ResolvedAt(ea) ==
    IF Read(pre.memory, ea)[1] = "ok"
    THEN /\ last.address = ea
         /\ last.data = Read(pre.memory, ea)[2]
    ELSE outcome = Read(pre.memory, ea)[1]

\* the operand bytes at PC + 1 and PC + 2 before the step
OperandByte(k) == Read(pre.memory, pre.pc + k)[2]

\* C22: for every 3-byte instruction with ABSOLUTE, ABSOLUTE_X or ABSOLUTE_Y
\* addressing and operand bytes b1 (at PC+1) and b2 (at PC+2), the base
\* address is b1 + 256 * b2, the effective address is the base plus 0, X or
\* Y, and the value passed to the handler is the bus byte at that address.
C22_AbsoluteAddressing ==
    (FetchedStep /\ last.op_hex \in AbsoluteOpcodes) =>
        LET base == OperandByte(1) + 256 * OperandByte(2) IN
        ResolvedAt(base + (CASE last.addressing_mode = "ABSOLUTE" -> 0
                             [] last.addressing_mode = "ABSOLUTE_X" -> pre.reg_x
                             [] last.addressing_mode = "ABSOLUTE_Y" -> pre.reg_y))

\* C22 witness: LDA $07FF,X with X = 1 reads the byte of 0x0800, the first
\* mirrored address, and loads it
C22_Witness ==
    /\ FetchedStep
    /\ last.op_hex = 189
    /\ last.inst_data = 65287
    /\ pre.reg_x = 1
    /\ last.address = 2048
    /\ last.data = RamPattern[1]
    /\ reg_a = RamPattern[1]
    /\ outcome = "ok"

\* the step ran an instruction with an indirect indexed operand whose two
\* pointer bytes could be read
IndirectYStep ==
    /\ FetchedStep
    /\ last.op_hex \in IndirectYOpcodes
    /\ Read(pre.memory, OperandByte(1))[1] = "ok"
    /\ Read(pre.memory, OperandByte(1) + 1)[1] = "ok"

\* the pointer bytes bus[op] and bus[op + 1] before the step
PointerByte(k) == Read(pre.memory, OperandByte(1) + k)[2]

\* C23 as stated: for INDIRECT_Y addressing with operand op, the effective
\* address is (bus[op+1] << 8) | (bus[op] + Y), also when bus[op] + Y
\* exceeds 0xFF, and the value is the bus byte at that address.
C23_IndirectIndexedOr ==
    IndirectYStep =>
        ResolvedAt(BitOr(Shl(PointerByte(1), 8), PointerByte(0) + pre.reg_y))

\* C23: for INDIRECT_Y addressing with operand op, the effective address is
\* (bus[op+1] << 8) + (bus[op] + Y), the carry of bus[op] + Y going into the
\* high byte, and the value is the bus byte at that address.
C23_IndirectIndexedSum ==
    IndirectYStep =>
        ResolvedAt((PointerByte(1) * 256) + PointerByte(0) + pre.reg_y)

\* C23 witness: LDA ($10),Y with the pointer 0x01FF and Y = 1 loads the byte
\* of 0x0200
C23_Witness ==
    /\ IndirectYStep
    /\ last.op_hex = 177
    /\ PointerByte(0) = 255
    /\ PointerByte(1) = 1
    /\ pre.reg_y = 1
    /\ last.address = 512
    /\ last.data = RamPattern[513]
    /\ reg_a = RamPattern[513]

-----------------------------------------------------------------------------
(* Shifts and rotates, checked under SpecAlu.                              *)

\* the byte a shift or rotate works on: A for the accumulator variant, the
\* byte at the operand's address for the memory variant
ShiftInput ==
    IF last.addressing_mode = "ACCUMULATOR" THEN pre.reg_a
    ELSE Read(pre.memory, AluAddress)[2]

\* the byte ASL, LSR, ROL, ROR make of `input` with the carry c_in
Shifted(inst_name, input, c_in) ==
    CASE inst_name = "ASL" -> (input * 2) % 256
      [] inst_name = "LSR" -> input \div 2
      [] inst_name = "ROL" -> BitOr(input * 2, c_in) % 256
      [] inst_name = "ROR" -> BitOr(input \div 2, c_in * 128)

\* the bit that leaves the byte: bit 7 for ASL and ROL, bit 0 for LSR and ROR
ShiftedOut(inst_name, input) ==
    IF inst_name \in {"ASL", "ROL"} THEN input \div 128 ELSE input % 2

\* C24: for ASL, LSR, ROL and ROR, accumulator and memory variants, every
\* input byte and carry-in: the new C is bit 7 (ASL, ROL) or bit 0 (LSR, ROR)
\* of the input; the result is (input << 1) mod 256, input >> 1,
\* ((input << 1) | C_in) mod 256 or (input >> 1) | (C_in << 7); it is written
\* to A for the accumulator variant and to the effective address, A left
\* unchanged, for the memory variant.
C24_ShiftsAndRotates ==
    (FetchedStep /\ last.inst_name \in {"ASL", "LSR", "ROL", "ROR"}) =>
        LET result == Shifted(last.inst_name, ShiftInput, pre.reg_p.C) IN
        /\ outcome = "ok"
        /\ reg_p.C = ShiftedOut(last.inst_name, ShiftInput)
        /\ IF last.addressing_mode = "ACCUMULATOR"
           THEN /\ reg_a = result
                /\ memory = pre.memory
           ELSE /\ last.address = AluAddress
                /\ Read(memory, AluAddress) = <<"ok", result>>
                /\ reg_a = pre.reg_a
                /\ memory = BusSetByte(pre.memory, AluAddress, result).bus

\* C24 witness: ROR A on A = 0x80 with the carry set gives A = 0xC0 and
\* clears the carry
C24_Witness ==
    /\ Ran("ROR")
    /\ last.addressing_mode = "ACCUMULATOR"
    /\ pre.reg_a = 128
    /\ pre.reg_p.C = 1
    /\ reg_a = 192
    /\ reg_p.C = 0

-----------------------------------------------------------------------------
(* BIT: one instruction on a prepared accumulator and status.              *)

\* most steps in one behaviour of SpecBit
MaxBitSteps == 1

\* BIT with a zero-page and with an absolute operand
BitOpcodes == {36, 44}

\* a Cpu on a bus holding one BIT at 0x8000 whose operand is at 0x0010, the
\* host having set A = r, X = Y = S = 255 - r and P from the byte `flags`
InitBit ==
    \E r \in AluBytes, value \in AluBytes, flags \in {0, 255}, op \in BitOpcodes :
        \E image \in {Image(16 * 1024, 32768, AluProgram(op, value))} :
            \E bus \in {BusSetByte(image, AluAddress, value).bus} :
                \E c \in {reset(Fresh(bus))} :
                    \E d \in {set_reg_s(set_reg_y(set_reg_x(set_reg_a(c, r),
                                  255 - r), 255 - r), 255 - r)} :
                        Prepared([d EXCEPT !.reg_p = from_int(flags)])

\* the host calls Cpu.run_next
BitStep == ops < MaxBitSteps /\ Step

SpecBit == InitBit /\ [][BitStep]_vars

\* C25: for all A and value in 0..255, BIT sets V to bit 6 of value, N to
\* bit 7 of value (not of A & value) and Z = 1 exactly when A & value is 0,
\* and leaves A, X, Y, S, C and memory unchanged.
C25_BitTest ==
    Ran("BIT") =>
        LET value == Read(pre.memory, AluAddress)[2] IN
        /\ outcome = "ok"
        /\ last.data = value
        /\ reg_p.V = (value \div 64) % 2
        /\ reg_p.N = value \div 128
        /\ reg_p.Z = Bool(BitAnd(pre.reg_a, value) = 0)
        /\ reg_a = pre.reg_a
        /\ reg_x = pre.reg_x
        /\ reg_y = pre.reg_y
        /\ reg_s = pre.reg_s
        /\ reg_p.C = pre.reg_p.C
        /\ memory = pre.memory

-----------------------------------------------------------------------------
(* Pairs on the stack: an instruction that sets the flags, then PHP PLP,   *)
(* PHA PLA or BRK RTI.                                                     *)

\* most steps in one behaviour of SpecPairs
MaxPairSteps == 3

\* the bytes A and the operand of the first instruction are drawn from
PairBytes == {0, 1, 128, 255}

\* the stack pointers the host sets: the pushes of a pair wrap from 0, 1, 2
PairPointers == {0, 1, 2, 255}

\* the first instruction: LDA, ADC or CMP with an immediate operand
PairFirsts == {169, 105, 201}

\* PHP PLP, PHA PLA, BRK RTI
Pairs == { <<8, 40>>, <<72, 104>>, <<0, 64>> }

\* a Cpu on a bus holding the first instruction and a pair, the host having
\* set A, S and P
InitPairs ==
    \E cartridge \in Cartridges, first \in PairFirsts, value \in PairBytes,
       r \in PairBytes, s \in PairPointers, flags \in {0, 255}, pair \in Pairs :
        \E image \in {Image(cartridge.prg_size, cartridge.start_address,
                            <<first, value>> \o pair)} :
            \E c \in {reset(Fresh(image))} :
                \E d \in {set_reg_s(set_reg_a(c, r), s)} :
                    Prepared([d EXCEPT !.reg_p = from_int(flags)])

\* the pair a step belongs to: the PHP, PHA or BRK it executes (with the
\* state it started from), else the one the step before it executed
PairOf(n) ==
    IF n.f.c.err = "ok" /\ n.f.inst_name \in {"PHP", "PHA", "BRK"}
    THEN [first |-> n.f.inst_name, second |-> FALSE, at |-> pc,
          p0 |-> reg_p, s0 |-> reg_s, a0 |-> reg_a]
    ELSE IF "first" \in DOMAIN last /\ last.first # "None" /\ ~last.second
    THEN [first |-> last.first, second |-> TRUE, at |-> last.at,
          p0 |-> last.p0, s0 |-> last.s0, a0 |-> last.a0]
    ELSE [first |-> "None", second |-> FALSE, at |-> None,
          p0 |-> NewProcessorStatus, s0 |-> None, a0 |-> None]

\* the host calls Cpu.run_next; `last` also keeps the state before the push
\* that the step, or the step before it, executed
PairStep ==
    /\ ops < MaxPairSteps
    /\ \E n \in {run_next(Cur)} :
        /\ Becomes(n.c)
        /\ last' = StepRecord(n) @@ PairOf(n)
    /\ pre' = Cur
    /\ ops' = ops + 1

SpecPairs == InitPairs /\ [][PairStep]_vars

\* the step executed `second` immediately after a step that executed `first`
RanAfter(second, first) ==
    /\ Ran(second)
    /\ last.second
    /\ last.first = first

\* C26: in any reachable state, a PHP immediately followed by a PLP leaves
\* every flag of P (the unused flag too) and S as they were before the PHP;
\* a PHA immediately followed by a PLA leaves A and S unchanged and sets Z
\* and N from A.
C26_PushPullPairs ==
    /\ RanAfter("PLP", "PHP") =>
        /\ outcome = "ok"
        /\ reg_p = last.p0
        /\ reg_s = last.s0
    /\ RanAfter("PLA", "PHA") =>
        /\ outcome = "ok"
        /\ reg_a = last.a0
        /\ reg_s = last.s0
        /\ reg_p.Z = Bool(reg_a = 0)
        /\ reg_p.N = reg_a \div 128

\* C27: a BRK at p pushes the high byte of p + 2, the low byte of p + 2 and
\* the status byte as it was before the BRK, in this order, lowers S by 3
\* and then sets B = 1; an RTI executed next restores P to its value before
\* the BRK, sets PC = p + 2 and restores S.
C27_BreakAndReturn ==
    /\ Ran("BRK") =>
        /\ outcome = "ok"
        /\ Read(memory, 256 + pre.reg_s)
               = <<"ok", ((pre.pc + 2) \div 256) % 256>>
        /\ Read(memory, 256 + ((pre.reg_s + 255) % 256))
               = <<"ok", (pre.pc + 2) % 256>>
        /\ Read(memory, 256 + ((pre.reg_s + 254) % 256))
               = <<"ok", Packed(pre.reg_p) % 256>>
        /\ reg_s = (pre.reg_s + 253) % 256
        /\ reg_p = [pre.reg_p EXCEPT !.B = 1]
    /\ RanAfter("RTI", "BRK") =>
        /\ outcome = "ok"
        /\ reg_p = last.p0
        /\ pc = last.at + 2
        /\ reg_s = last.s0

\* the flags of p are all 0 or 1
Binary(p) == \A f \in DOMAIN p : p[f] \in {0, 1}

-----------------------------------------------------------------------------
(* Slice writes through the Bus.                                           *)

\* most slice writes in one behaviour of SpecSlice
MaxSliceOps == 2

\* the first address of a slice: the start and the inside of internal RAM,
\* its last bytes, a mirror and the last bytes of the last mirror, the start
\* of program ROM, the last bytes of its first 16 KiB and of the whole
SliceStarts ==
    {0, 16, 2045, 2046, 2047, 2064, 8189, 8190, 32768, 49150, 65534}

\* the lists written: one, two and three values, some wider than a byte
SliceValues == { <<7>>, <<9, 264>>, <<300, -1, 5>> }

\* the host executes bus[lo : lo + k] = value, value a list of k values
BusWriteSlice ==
    /\ ops < MaxSliceOps
    /\ \E lo \in SliceStarts, value \in SliceValues :
        \E w \in {BusSetSlice(memory, lo, lo + Len(value), value)} :
            /\ memory' = w.bus
            /\ outcome' = w.err
            /\ raised' = (raised \/ w.err # "ok")
            /\ last' = [kind |-> "bus_write_slice", start |-> lo,
                        stop |-> lo + Len(value), value |-> value]
    /\ pre' = Cur
    /\ ops' = ops + 1
    /\ CpuUnchanged

SpecSlice == InitBus /\ [][BusWriteSlice]_vars

\* the region the address a belongs to: internal RAM with its mirrors below
\* 0x2000, program ROM from 0x8000 to 0xFFFF, none between
RegionOf(a) ==
    IF a >= 0 /\ a < 8192 THEN "cpu_memory"
    ELSE IF a >= 32768 /\ a <= 65535 THEN "cartridge_prg_rom"
    ELSE "None"

\* the addresses lo .. lo + k - 1 all lie in one mapped region
InOneRegion(lo, k) ==
    /\ RegionOf(lo) # "None"
    /\ \A a \in lo..(lo + k - 1) : RegionOf(a) = RegionOf(lo)

\* the addresses probed for bytes that a slice write must leave alone
SliceProbes ==
    {0, 1, 15, 16, 17, 18, 19, 2044, 2045, 2046, 2047, 32768, 32769, 32770,
     32771, 49148, 49149, 49150, 49151}

\* the addresses lo .. lo + k - 1 with their mirrors, folded to the address
\* of the byte in its region
Folded(bus, a) ==
    IF a < 8192 THEN a % 2048
    ELSE IF bus.cartridge_prg_rom.size = 16 * 1024 /\ a >= 49152 THEN a - 16384
    ELSE a

\* C28: a bus slice write of k values to [lo, lo + k) whose addresses all
\* lie in one mapped region (also when the range ends exactly at a mirror or
\* region boundary such as 0x0800 or 0x2000) stores value i, masked to 8
\* bits, at bus address lo + i, changes no other byte, and leaves the number
\* of bytes of every memory region unchanged.
C28_SliceWrite ==
    (last.kind = "bus_write_slice"
        /\ InOneRegion(last.start, Len(last.value))) =>
        /\ outcome = "ok"
        /\ \A i \in 1..Len(last.value) :
            Read(memory, last.start + i - 1) = <<"ok", last.value[i] % 256>>
        /\ \A a \in SliceProbes :
            (\A i \in 1..Len(last.value) :
                Folded(pre.memory, last.start + i - 1) # a)
            => Read(memory, a) = Read(pre.memory, a)
        /\ memory.cpu_memory.size = pre.memory.cpu_memory.size
        /\ memory.cartridge_prg_rom.size = pre.memory.cartridge_prg_rom.size

-----------------------------------------------------------------------------
(* Word accesses through the Bus, checked under SpecBus.                   *)

\* the addresses a and a + 1 both map to a region
BothMapped(a) == RegionOf(a) # "None" /\ RegionOf(a + 1) # "None"

\* C29: for every CPU address a such that a and a + 1 both map to a region,
\* a bus word read at a equals (bus byte at a) + 256 * (bus byte at a + 1),
\* and a bus word write of v at a has the effect of the byte writes of
\* v mod 256 at a and (v >> 8) mod 256 at a + 1, also when a is the last
\* address before a mirror boundary (0x07FF, or 0xBFFF with 16 KiB of ROM).
C29_WordAccess ==
    /\ (last.kind = "bus_read_word" /\ BothMapped(last.address)) =>
        /\ outcome = "ok"
        /\ last.val = Read(pre.memory, last.address)[2]
                          + (256 * Read(pre.memory, last.address + 1)[2])
    /\ (last.kind = "bus_write_word" /\ BothMapped(last.address)) =>
        /\ outcome = "ok"
        /\ memory = BusSetByte(BusSetByte(pre.memory, last.address,
                                           last.value % 256).bus,
                               last.address + 1,
                               (last.value \div 256) % 256).bus

-----------------------------------------------------------------------------
(* The flags, checked under Spec.                                          *)

\* C30: in every state reached from reset by completed steps only, each of
\* the eight flags N, V, unused, B, D, I, Z, C is 0 or 1, so that the byte
\* packed by to_int is in 0..255 and no flag spills into the bit of another
\* when P is pushed.
C30_BinaryFlags ==
    ~raised =>
        /\ Binary(reg_p)
        /\ to_int(reg_p) \in 0..255
        /\ to_int(reg_p) = Packed(reg_p)

====
